---- MODULE Spec2Model ----
(***************************************************************************)
(* Version model, constraint engine and upgrade resolver of the            *)
(* dep-version-lens extension (utils.ts).                                  *)
(*                                                                         *)
(* Text representation.  A version text is the sequence of its             *)
(* '.'-separated segments, as String.prototype.split('.') yields them.     *)
(* A segment is a record [n, sfx]: the text of the segment is the decimal  *)
(* digits of n (no digits at all when n = NoDigits) followed by sfx, where *)
(* sfx is either empty or starts with a character that is neither a digit  *)
(* nor a dot ("rc1", "+build", "latest").  So "1.2.0" is                   *)
(* <<D(1), D(2), D(0)>>, "2.0.0rc1" is <<D(2), D(0), T(0, "rc1")>> and     *)
(* "latest" is <<T(NoDigits, "latest")>>.                                  *)
(***************************************************************************)
EXTENDS Integers, Sequences, FiniteSets, TLC

VARIABLES fn, op, v1, v2, pool, pc, cmpResult, satResult, options,
          specText, specParts, doc, patterns, parser, emitted, result

\* the CodeLens provider of the DecorationManager: its switch, its package
\* list and loading flag, what the registry lists, and the lenses returned
VARIABLES enabled, isLoading, shownPackages, registry, lenses

\* the version service: its cache, the clock, the configured timeout, the
\* log of getPackageInfo calls, and the names not asked for since clearCache
VARIABLES cache, now, cacheTimeout, calls, cleared

\* the file watcher: its watchers and listeners, the timers pending in the
\* runtime and in its Map, the documents being opened, and the record of
\* the change events and of the callback
VARIABLES watching, listeners, timers, debounceTimers, opening, lastEvent, lastCallback

\* the extension: its switch and the setting, the text of the open
\* document, the handleFileChange / handleDocumentChange invocations that
\* await a version, lastParsedPackages, the refresh timer, the call of
\* provideCodeLenses, and the record of the commands and invocations
VARIABLES isVersionLensesEnabled, configEnabled, docText, tasks, lastParsedPackages,
          refreshTimer, provideCall, hidden, latestParsed, raced

\* arguments and results of the manifest layer: parseVersionSpec on raw
\* text, and parseDocument with the parser it selects
manifestVars == <<specText, specParts, doc, patterns, parser, emitted, result>>

providerVars == <<enabled, isLoading, shownPackages, registry, lenses>>

\* the state of the extension host around the pure core
serviceVars == <<cache, now, cacheTimeout, calls, cleared>>

watcherVars == <<watching, listeners, timers, debounceTimers, opening, lastEvent,
                 lastCallback>>

extensionVars == <<isVersionLensesEnabled, configEnabled, docText, tasks,
                   lastParsedPackages, refreshTimer, provideCall, hidden,
                   latestParsed, raced>>

hostVars == <<providerVars, serviceVars, watcherVars, extensionVars>>

vars == <<fn, op, v1, v2, pool, pc, cmpResult, satResult, options,
          specText, specParts, doc, patterns, parser, emitted, result, hostVars>>

(***************************************************************************)
(* Bounds of the explored inputs.                                          *)
(***************************************************************************)
\* a service is asked at most MaxCalls times, and the clock is advanced
\* step by step up to MaxNow milliseconds
MaxCalls == 2
MaxNow == 3000
\* startWatching is called at most MaxStarts times
MaxStarts == 2

\* the last instant of the watcher's clock, in ms
MaxClock == 400

\* at most MaxTasks invocations await a version at the same time
MaxTasks == 2
\* components of the enumerated dotted-numeric versions range over 0..MaxComp
MaxComp == 2
\* the enumerated pools of known versions hold at most MaxPool strings
MaxPool == 2

(***************************************************************************)
(* Segments and texts.                                                     *)
(***************************************************************************)
NoDigits == 0 - 1

D(k) == [n |-> k, sfx |-> ""]

T(k, s) == [n |-> k, sfx |-> s]

\* a slot of the result that holds null; no text has zero segments
Null == <<>>

(***************************************************************************)
(* JavaScript values of the numeric arrays.                                *)
(***************************************************************************)
\* Number(segment) of a segment that is not a number
NaN == -1
\* parts[i] past the end of the array
Undef == -2

\* Number(s) for one segment: "" is 0, digits are their value, anything
\* carrying a suffix is NaN
Number(seg) ==
    IF seg.sfx # "" THEN NaN
    ELSE IF seg.n = NoDigits THEN 0
    ELSE seg.n

\* parts[i] with i counted from 1
At(parts, i) == IF i <= Len(parts) THEN parts[i] ELSE Undef

\* x || 0 : NaN, undefined and 0 are falsy
OrZero(x) == IF x = NaN \/ x = Undef THEN 0 ELSE x

\* a === b on numbers and undefined: NaN equals nothing
StrictEq(a, b) == a # NaN /\ b # NaN /\ a = b

\* a > b : a comparison with NaN or undefined is false
Gt(a, b) == a # NaN /\ a # Undef /\ b # NaN /\ b # Undef /\ a > b

\* mutant: the offset is used as found, without the clamp at zero
MaxSecond(a, b) == b

Max(a, b) == IF a >= b THEN a ELSE b

(***************************************************************************)
(* parseVersion: the texts of this model carry no operator prefix, so the  *)
(* leading replace() removes nothing; split('.') and map(Number) remain.   *)
(***************************************************************************)
parseVersion(version) == [i \in 1..Len(version) |-> Number(version[i])]

(***************************************************************************)
(* compareVersions                                                         *)
(***************************************************************************)
RECURSIVE compareLoop(_, _, _, _)
compareLoop(parts1, parts2, i, maxLength) ==
    IF i > maxLength THEN 0
    ELSE LET part1 == OrZero(At(parts1, i))
             part2 == OrZero(At(parts2, i))
         IN  IF part1 < part2 THEN -1
             ELSE IF part1 > part2 THEN 1
             ELSE compareLoop(parts1, parts2, i + 1, maxLength)

\* mutant: the loop stops at the shorter array (no zero padding)
compareVersionsNoPadding(a, b) ==
    LET parts1 == parseVersion(a)
        parts2 == parseVersion(b)
        minLength == IF Len(parts1) <= Len(parts2) THEN Len(parts1) ELSE Len(parts2)
    IN  compareLoop(parts1, parts2, 1, minLength)

\* mutant: the second test is dropped, a greater part is never reported
compareVersionsNoGreater(a, b) ==
    LET parts1 == parseVersion(a)
        parts2 == parseVersion(b)
        maxLength == Max(Len(parts1), Len(parts2))
        lower == {i \in 1..maxLength : OrZero(At(parts1, i)) < OrZero(At(parts2, i))}
    IN  IF lower # {} THEN -1 ELSE 0

compareVersions(a, b) ==
    LET parts1 == parseVersion(a)
        parts2 == parseVersion(b)
        maxLength == Max(Len(parts1), Len(parts2))
    IN  compareLoop(parts1, parts2, 1, maxLength)

(***************************************************************************)
(* satisfiesConstraint                                                     *)
(***************************************************************************)
\* mutant: the empty operator falls through to the default branch
satisfiesConstraintEmptyDefault(version, operator, constraintVersion) ==
    LET cmp == compareVersions(version, constraintVersion)
        vParts == parseVersion(version)
        cParts == parseVersion(constraintVersion)
    IN  CASE operator = "==" -> cmp = 0
          [] operator = ">=" -> cmp >= 0
          [] operator = ">"  -> cmp > 0
          [] operator = "<=" -> cmp <= 0
          [] operator = "<"  -> cmp < 0
          [] operator = "!=" -> cmp # 0
          [] operator = "~=" -> StrictEq(At(vParts, 1), At(cParts, 1))
                                /\ StrictEq(At(vParts, 2), At(cParts, 2)) /\ cmp >= 0
          [] operator = "^"  -> StrictEq(At(vParts, 1), At(cParts, 1)) /\ cmp >= 0
          [] operator = "~"  -> StrictEq(At(vParts, 1), At(cParts, 1))
                                /\ StrictEq(At(vParts, 2), At(cParts, 2)) /\ cmp >= 0
          [] OTHER -> cmp >= 0

\* mutant: the tilde ranges check the major component only, like the caret
satisfiesConstraintTildeAsCaret(version, operator, constraintVersion) ==
    LET cmp == compareVersions(version, constraintVersion)
        vParts == parseVersion(version)
        cParts == parseVersion(constraintVersion)
    IN  CASE operator \in {"==", ""} -> cmp = 0
          [] operator = ">=" -> cmp >= 0
          [] operator = ">"  -> cmp > 0
          [] operator = "<=" -> cmp <= 0
          [] operator = "<"  -> cmp < 0
          [] operator = "!=" -> cmp # 0
          [] operator \in {"~=", "^", "~"} ->
                StrictEq(At(vParts, 1), At(cParts, 1)) /\ cmp >= 0
          [] OTHER -> cmp >= 0

\* mutant: an unrecognised operator is read as an exact match
satisfiesConstraintDefaultExact(version, operator, constraintVersion) ==
    LET cmp == compareVersions(version, constraintVersion)
        vParts == parseVersion(version)
        cParts == parseVersion(constraintVersion)
    IN  CASE operator \in {"==", ""} -> cmp = 0
          [] operator = ">=" -> cmp >= 0
          [] operator = ">"  -> cmp > 0
          [] operator = "<=" -> cmp <= 0
          [] operator = "<"  -> cmp < 0
          [] operator = "!=" -> cmp # 0
          [] operator = "~=" -> StrictEq(At(vParts, 1), At(cParts, 1))
                                /\ StrictEq(At(vParts, 2), At(cParts, 2)) /\ cmp >= 0
          [] operator = "^"  -> StrictEq(At(vParts, 1), At(cParts, 1)) /\ cmp >= 0
          [] operator = "~"  -> StrictEq(At(vParts, 1), At(cParts, 1))
                                /\ StrictEq(At(vParts, 2), At(cParts, 2)) /\ cmp >= 0
          [] OTHER -> cmp = 0

satisfiesConstraint(version, operator, constraintVersion) ==
    LET cmp == compareVersions(version, constraintVersion)
        vParts == parseVersion(version)
        cParts == parseVersion(constraintVersion)
    IN  CASE operator \in {"==", ""} -> cmp = 0
          [] operator = ">=" -> cmp >= 0
          [] operator = ">"  -> cmp > 0
          [] operator = "<=" -> cmp <= 0
          [] operator = "<"  -> cmp < 0
          [] operator = "!=" -> cmp # 0
          [] operator = "~=" -> StrictEq(At(vParts, 1), At(cParts, 1))
                                /\ StrictEq(At(vParts, 2), At(cParts, 2)) /\ cmp >= 0
          [] operator = "^"  -> StrictEq(At(vParts, 1), At(cParts, 1)) /\ cmp >= 0
          [] operator = "~"  -> StrictEq(At(vParts, 1), At(cParts, 1))
                                /\ StrictEq(At(vParts, 2), At(cParts, 2)) /\ cmp >= 0
          [] OTHER -> cmp >= 0

(***************************************************************************)
(* parseVersionSpec.  A spec text is held as [prefix, rest]: prefix is its *)
(* leading run of operator characters and rest, which starts with another  *)
(* character, is what follows; the greedy class match of the regular       *)
(* expression ends exactly between the two.                                *)
(***************************************************************************)
parseVersionSpec(versionSpec) ==
    [operator |-> versionSpec.prefix, version |-> versionSpec.rest]

(***************************************************************************)
(* getVersionUpgradeOptions                                                *)
(***************************************************************************)
\* /^\d+\.\d+(\.\d+)?/.test(v): the expression is anchored at the start
\* only, so it accepts every text that begins digits '.' digit
matchesVersionPattern(v) ==
    /\ Len(v) >= 2
    /\ v[1].n # NoDigits /\ v[1].sfx = ""
    /\ v[2].n # NoDigits

\* Array.prototype.sort is stable: x, taken after the elements of sorted,
\* goes behind every element that does not compare lower than it
insertDescending(sorted, x) ==
    LET k == Cardinality({j \in 1..Len(sorted) : compareVersions(x, sorted[j]) <= 0})
    IN  SubSeq(sorted, 1, k) \o <<x>> \o SubSeq(sorted, k + 1, Len(sorted))

RECURSIVE sortDescending(_)
sortDescending(s) ==
    IF s = <<>> THEN <<>>
    ELSE insertDescending(sortDescending(SubSeq(s, 1, Len(s) - 1)), s[Len(s)])

\* mutant: the pool is only filtered, the sort is missing
validVersionsUnsorted(allVersions) == SelectSeq(allVersions, matchesVersionPattern)

validVersions(allVersions) ==
    sortDescending(SelectSeq(allVersions, matchesVersionPattern))

\* mutant of the first loop: the isNewer test is missing
RECURSIVE satisfiesScanNoNewer(_, _, _, _)
satisfiesScanNoNewer(valid, operator, currentVersion, i) ==
    IF i > Len(valid) THEN Null
    ELSE IF satisfiesConstraint(valid[i], operator, currentVersion) THEN valid[i]
    ELSE satisfiesScanNoNewer(valid, operator, currentVersion, i + 1)

\* first loop: the first version that satisfies the constraint and is newer
RECURSIVE satisfiesScan(_, _, _, _)
satisfiesScan(valid, operator, currentVersion, i) ==
    IF i > Len(valid) THEN Null
    ELSE LET satisfiesResult == satisfiesConstraint(valid[i], operator, currentVersion)
             isNewer == compareVersions(valid[i], currentVersion) > 0
         IN  IF satisfiesResult /\ isNewer THEN valid[i]
             ELSE satisfiesScan(valid, operator, currentVersion, i + 1)

\* mutant of the second loop: the minor component is not compared
RECURSIVE exactPinScanAnyMinor(_, _, _)
exactPinScanAnyMinor(valid, current, i) ==
    IF i > Len(valid) THEN Null
    ELSE LET parsed == parseVersion(valid[i])
         IN  IF /\ StrictEq(At(parsed, 1), At(current, 1))
                /\ Gt(At(parsed, 3), OrZero(At(current, 3)))
             THEN valid[i]
             ELSE exactPinScanAnyMinor(valid, current, i + 1)

\* second loop, for an exact pin without a satisfies version
RECURSIVE exactPinScan(_, _, _)
exactPinScan(valid, current, i) ==
    IF i > Len(valid) THEN Null
    ELSE LET parsed == parseVersion(valid[i])
         IN  IF /\ StrictEq(At(parsed, 1), At(current, 1))
                /\ StrictEq(At(parsed, 2), At(current, 2))
                /\ Gt(At(parsed, 3), OrZero(At(current, 3)))
             THEN valid[i]
             ELSE exactPinScan(valid, current, i + 1)

\* third loop: acc holds major, minor and patch as filled so far
RECURSIVE upgradeScan(_, _, _, _, _)
upgradeScan(valid, currentVersion, current, i, acc) ==
    IF i > Len(valid) THEN acc
    ELSE LET version == valid[i]
             parsed == parseVersion(version)
             vMajor == At(parsed, 1)
             vMinor == At(parsed, 2)
             vPatch == At(parsed, 3)
             currentMajor == At(current, 1)
             currentMinor == At(current, 2)
             currentPatch == At(current, 3)
         IN  IF compareVersions(version, currentVersion) <= 0
             THEN upgradeScan(valid, currentVersion, current, i + 1, acc)
             ELSE upgradeScan(valid, currentVersion, current, i + 1,
                    [major |-> IF acc.major = Null /\ Gt(vMajor, currentMajor)
                               THEN version ELSE acc.major,
                     minor |-> IF /\ acc.minor = Null
                                  /\ StrictEq(vMajor, currentMajor)
                                  /\ Gt(vMinor, currentMinor)
                               THEN version ELSE acc.minor,
                     patch |-> IF /\ acc.patch = Null
                                  /\ StrictEq(vMajor, currentMajor)
                                  /\ StrictEq(vMinor, currentMinor)
                                  /\ Gt(vPatch, OrZero(currentPatch))
                               THEN version ELSE acc.patch])

NoOptions == [satisfies |-> Null, major |-> Null, minor |-> Null, patch |-> Null]

\* the empty string: one segment without any character
EmptyText == <<T(NoDigits, "")>>

getVersionUpgradeOptions(currentVersionSpec, allVersions) ==
    IF \/ (currentVersionSpec.prefix = "" /\ currentVersionSpec.rest = EmptyText)
       \/ Len(allVersions) = 0
    THEN NoOptions
    ELSE LET parsedSpec == parseVersionSpec(currentVersionSpec)
             operator == parsedSpec.operator
             currentVersion == parsedSpec.version
             current == parseVersion(currentVersion)
             valid == validVersions(allVersions)
             found == satisfiesScan(valid, operator, currentVersion, 1)
             satisfies == IF found = Null /\ operator \in {"", "=="}
                          THEN exactPinScan(valid, current, 1)
                          ELSE found
             rest == upgradeScan(valid, currentVersion, current, 1,
                                 [major |-> Null, minor |-> Null, patch |-> Null])
         IN  [satisfies |-> satisfies, major |-> rest.major,
              minor |-> rest.minor, patch |-> rest.patch]

(***************************************************************************)
(* Inputs.                                                                 *)
(***************************************************************************)
\* the operators satisfiesConstraint has a case for
KnownOperators == {"", "==", ">=", ">", "<=", "<", "!=", "~=", "^", "~"}

\* runs of operator characters it has no case for
UnknownOperators == {"=", "=>"}

Operators == KnownOperators \cup UnknownOperators

\* dotted-numeric versions of one to three components
DottedNumeric ==
    UNION {[1..k -> {D(c) : c \in 0..MaxComp}] : k \in 1..3}

\* what a registry may list: releases, equal releases written with and
\* without a patch component, a pre-release, build metadata, a version of
\* four components, a bare major and a tag
KnownVersions ==
    { <<D(1), D(1)>>,
      <<D(1), D(1), D(0)>>,
      <<D(1), D(1), D(1)>>,
      <<D(1), D(2), D(0)>>,
      <<D(2), D(0), D(0)>>,
      <<D(2), D(0), T(0, "rc1")>>,
      <<D(1), D(1), D(1), D(1)>>,
      <<D(2)>>,
      <<T(NoDigits, "latest")>> }

Pools == UNION {[1..k -> KnownVersions] : k \in 0..MaxPool}

\* spec.md, section 8, scenario 3: "==1.2.0" against four releases
Scenario3Pool == << <<D(1), D(2), D(0)>>, <<D(1), D(2), D(3)>>,
                    <<D(1), D(3), D(0)>>, <<D(2), D(0), D(0)>> >>

\* spec.md, section 8, scenario 4: "^1.2.0" against three releases
Scenario4Pool == << <<D(1), D(2), D(0)>>, <<D(1), D(9), D(0)>>,
                    <<D(2), D(0), D(0)>> >>

ScenarioRef == <<D(1), D(2), D(0)>>

TypeOK ==
    /\ fn \in {"compareVersions", "satisfiesConstraint", "getVersionUpgradeOptions"}
    /\ pc \in {"call", "return"}
    /\ op \in Operators
    /\ cmpResult \in {-1, 0, 1}
    /\ satResult \in BOOLEAN

\* the manifest layer takes no part in a call of the version engine
ManifestIdle ==
    /\ specText = <<>>
    /\ specParts = <<>>
    /\ doc = <<>>
    /\ patterns = <<>>
    /\ parser = ""
    /\ emitted = <<>>
    /\ result = <<>>

\* the provider as constructed: enabled, not loading, no packages
ProviderIdle ==
    /\ enabled = TRUE
    /\ isLoading = FALSE
    /\ shownPackages = <<>>
    /\ registry = <<>>
    /\ lenses = <<>>

\* no package was asked for
ServiceIdle ==
    /\ cache = <<>>
    /\ now = 0
    /\ cacheTimeout = 0
    /\ calls = <<>>
    /\ cleared = {}

\* no watcher was constructed
WatcherIdle ==
    /\ watching = FALSE
    /\ listeners = 0
    /\ timers = {}
    /\ debounceTimers = <<>>
    /\ opening = {}
    /\ lastEvent = <<>>
    /\ lastCallback = <<>>

\* the extension host takes no part in a call of the pure core
\* the extension as activate() finds it, no document open
NoProvideCall == [state |-> "none", held |-> 0, codeLenses |-> <<>>, hidden |-> FALSE]

ExtensionIdle ==
    /\ isVersionLensesEnabled = TRUE
    /\ configEnabled = TRUE
    /\ docText = 0
    /\ tasks = <<>>
    /\ lastParsedPackages = <<>>
    /\ refreshTimer = FALSE
    /\ provideCall = NoProvideCall
    /\ hidden = FALSE
    /\ latestParsed = 0
    /\ raced = FALSE

HostIdle ==
    /\ ProviderIdle
    /\ ServiceIdle
    /\ WatcherIdle
    /\ ExtensionIdle

Init ==
    /\ pc = "call"
    /\ ManifestIdle
    /\ HostIdle
    /\ cmpResult = 0
    /\ satResult = FALSE
    /\ options = NoOptions
    /\ \/ /\ fn = "compareVersions"
          /\ op = ""
          /\ v1 \in DottedNumeric
          /\ v2 \in DottedNumeric
          /\ pool = <<>>
       \/ /\ fn = "satisfiesConstraint"
          /\ op \in Operators
          /\ v1 \in DottedNumeric
          /\ v2 \in DottedNumeric
          /\ pool = <<>>
       \/ /\ fn = "getVersionUpgradeOptions"
          /\ op \in Operators
          /\ v1 = Null
          /\ v2 \in DottedNumeric
          /\ pool \in Pools
       \/ /\ fn = "getVersionUpgradeOptions"
          /\ op \in Operators
          /\ v1 = Null
          /\ v2 = ScenarioRef
          /\ pool \in {Scenario3Pool, Scenario4Pool}

\* compareVersions(v1, v2)
CallCompareVersions ==
    /\ pc = "call" /\ fn = "compareVersions"
    /\ cmpResult' = compareVersions(v1, v2)
    /\ pc' = "return"
    /\ UNCHANGED <<fn, op, v1, v2, pool, satResult, options>>
    /\ UNCHANGED manifestVars
    /\ UNCHANGED hostVars

\* satisfiesConstraint(v1, op, v2)
CallSatisfiesConstraint ==
    /\ pc = "call" /\ fn = "satisfiesConstraint"
    /\ satResult' = satisfiesConstraint(v1, op, v2)
    /\ pc' = "return"
    /\ UNCHANGED <<fn, op, v1, v2, pool, cmpResult, options>>
    /\ UNCHANGED manifestVars
    /\ UNCHANGED hostVars

\* getVersionUpgradeOptions(op ++ v2, pool)
CallGetVersionUpgradeOptions ==
    /\ pc = "call" /\ fn = "getVersionUpgradeOptions"
    /\ options' = getVersionUpgradeOptions([prefix |-> op, rest |-> v2], pool)
    /\ pc' = "return"
    /\ UNCHANGED <<fn, op, v1, v2, pool, cmpResult, satResult>>
    /\ UNCHANGED manifestVars
    /\ UNCHANGED hostVars

Next ==
    \/ CallCompareVersions
    \/ CallSatisfiesConstraint
    \/ CallGetVersionUpgradeOptions

Spec == Init /\ [][Next]_vars

(***************************************************************************)
(* Vocabulary of the properties, stated on the texts themselves.           *)
(***************************************************************************)
Returned(f) == pc = "return" /\ fn = f

Slots == {"satisfies", "major", "minor", "patch"}

Range(s) == {s[i] : i \in 1..Len(s)}

\* the i-th component of v is written and is a plain number
HasNumber(v, i) == i <= Len(v) /\ v[i].sfx = "" /\ v[i].n # NoDigits

\* v and r have the same i-th component: the same number, or none in both
SameComponent(v, r, i) ==
    IF i > Len(v) \/ i > Len(r) THEN i > Len(v) /\ i > Len(r)
    ELSE HasNumber(v, i) /\ HasNumber(r, i) /\ v[i].n = r[i].n

\* the i-th component of v is a number above that of r, an absent
\* component of r counting as 0
GreaterComponent(v, r, i) ==
    HasNumber(v, i) /\ v[i].n > (IF HasNumber(r, i) THEN r[i].n ELSE 0)

\* the i-th component of a dotted-numeric version padded with zeros
Padded(v, i) == IF i <= Len(v) THEN v[i].n ELSE 0

\* order of two dotted-numeric versions: the first component where the
\* zero-padded versions differ decides
PaddedOrder(a, b) ==
    LET differ == {i \in 1..Max(Len(a), Len(b)) : Padded(a, i) # Padded(b, i)}
    IN  IF differ = {} THEN 0
        ELSE LET d == CHOOSE i \in differ : \A j \in differ : i <= j
             IN  IF Padded(a, d) < Padded(b, d) THEN -1 ELSE 1

\* the plain pattern digit+.digit+(.digit+)? matched in full
IsPlainVersion(v) ==
    /\ Len(v) \in {2, 3}
    /\ \A i \in 1..Len(v) : HasNumber(v, i)

\* the pool versions the resolver's filter keeps
FilteredPool == Range(SelectSeq(pool, matchesVersionPattern))

\* slot holds a highest version of candidates, and null when there is none
IsHighestOf(slot, candidates) ==
    IF candidates = {} THEN slot = Null
    ELSE slot \in candidates /\ \A w \in candidates : compareVersions(w, slot) <= 0

\* versions that satisfy the declared constraint and are newer than ref
SatisfyingNewer ==
    {v \in FilteredPool : satisfiesConstraint(v, op, v2) /\ compareVersions(v, v2) > 0}

MajorCandidates(versions) == {v \in versions : GreaterComponent(v, v2, 1)}

MinorCandidates(versions) ==
    {v \in versions : SameComponent(v, v2, 1) /\ GreaterComponent(v, v2, 2)}

PatchCandidates(versions) ==
    {v \in versions : /\ SameComponent(v, v2, 1)
                      /\ SameComponent(v, v2, 2)
                      /\ GreaterComponent(v, v2, 3)}

(***************************************************************************)
(* Properties.                                                             *)
(***************************************************************************)

\* C1: every non-null candidate getVersionUpgradeOptions returns compares
\* strictly greater than ref under compareVersions, and the satisfies
\* candidate is never the declared current version itself.
C1_CandidatesNewerThanRef ==
    Returned("getVersionUpgradeOptions") =>
        /\ \A s \in Slots :
              options[s] # Null => compareVersions(options[s], v2) = 1
        /\ options.satisfies # v2

\* C1 witness: a call that filled all four slots
C1_Witness ==
    /\ Returned("getVersionUpgradeOptions")
    /\ \A s \in Slots : options[s] # Null

\* C2 (as claimed): only versions matching the plain pattern in full are
\* ever returned in one of the four slots.
C2_OnlyPlainVersionsReturned ==
    Returned("getVersionUpgradeOptions") =>
        \A s \in Slots : options[s] # Null => IsPlainVersion(options[s])

\* C3 (as claimed): for every operator the satisfies slot is the highest
\* version of the filtered pool that satisfies the constraint and is
\* strictly newer than ref.
C3_SatisfiesIsHighestSatisfying ==
    Returned("getVersionUpgradeOptions") =>
        IsHighestOf(options.satisfies, SatisfyingNewer)

\* C3 (amended): for every operator other than the exact pins "" and "==",
\* the satisfies slot is the highest version of the filtered pool that
\* satisfies the constraint and is strictly newer than ref, and null when
\* there is none.
C3_SatisfiesIsHighestSatisfyingUnlessPinned ==
    (Returned("getVersionUpgradeOptions") /\ op \notin {"", "=="}) =>
        IsHighestOf(options.satisfies, SatisfyingNewer)

\* C3 witness: scenario 4, "^1.2.0" against 1.2.0, 1.9.0, 2.0.0
C3_Witness ==
    /\ Returned("getVersionUpgradeOptions")
    /\ op = "^" /\ v2 = ScenarioRef /\ pool = Scenario4Pool
    /\ options = [satisfies |-> <<D(1), D(9), D(0)>>,
                  major |-> <<D(2), D(0), D(0)>>,
                  minor |-> <<D(1), D(9), D(0)>>,
                  patch |-> Null]

C5_SlotsAreHighestQualifying ==
    Returned("getVersionUpgradeOptions") =>
        /\ IsHighestOf(options.major, MajorCandidates(FilteredPool))
        /\ IsHighestOf(options.minor, MinorCandidates(FilteredPool))
        /\ IsHighestOf(options.patch, PatchCandidates(FilteredPool))

\* C6: compareVersions is antisymmetric and reflexive on dotted-numeric
\* versions: compare(a, b) = -compare(b, a) and compare(a, a) = 0.
C6_CompareAntisymmetric ==
    Returned("compareVersions") =>
        /\ cmpResult = 0 - compareVersions(v2, v1)
        /\ (v1 = v2 => cmpResult = 0)

\* C6 witness: a comparison that answered 1
C6_Witness == Returned("compareVersions") /\ cmpResult = 1

\* C7: compareVersions orders two versions as if the shorter were padded
\* with trailing zeros; the first component where they differ decides.
C7_ComparePadsWithZeros ==
    Returned("compareVersions") => cmpResult = PaddedOrder(v1, v2)

\* C7 witness: "1.2" against "1.2.1" is lower, decided by the padded part
C7_Witness ==
    /\ Returned("compareVersions")
    /\ v1 = <<D(1), D(2)>> /\ v2 = <<D(1), D(2), D(1)>>
    /\ cmpResult = -1

C10_UnknownOperatorIsAtLeast ==
    (Returned("satisfiesConstraint") /\ op \notin KnownOperators) =>
        satResult = (PaddedOrder(v1, v2) >= 0)

\* C10 witness: "=>" accepts a newer candidate and "=" refuses an older one
C10_Witness ==
    /\ Returned("satisfiesConstraint")
    /\ \/ op = "=>" /\ PaddedOrder(v1, v2) = 1 /\ satResult
       \/ op = "=" /\ PaddedOrder(v1, v2) = -1 /\ ~satResult

(***************************************************************************)
(* Raw text.  From here on a text is the sequence of its characters, each  *)
(* a one-character string; a document text is the sequence of its lines,   *)
(* as split('\n') yields them.                                             *)
(***************************************************************************)
\* the version engine takes no part in a call of the manifest layer
EngineIdle ==
    /\ op = ""
    /\ v1 = Null
    /\ v2 = Null
    /\ pool = <<>>
    /\ cmpResult = 0
    /\ satResult = FALSE
    /\ options = NoOptions

\* the characters of the class [~^>=<!=]
OperatorChars == {"~", "^", ">", "=", "<", "!"}

\* line terminators, which '.' does not match
LineTerminators == {"\n", "\r"}

\* length of the longest prefix of s made of characters of class
RECURSIVE leadingRun(_, _)
leadingRun(s, class) ==
    IF s # <<>> /\ s[1] \in class THEN 1 + leadingRun(Tail(s), class) ELSE 0

Prefix(s, k) == SubSeq(s, 1, k)

Suffix(s, k) == SubSeq(s, k + 1, Len(s))

(***************************************************************************)
(* A regex made of an optional leading run of a character class, then     *)
(* (.+), anchored at both ends, and the two results taken from it.  The    *)
(* first group is greedy and gives characters back until (.+) has one to   *)
(* take; with no way to match, the operator is empty and the version is    *)
(* the whole text.                                                         *)
(***************************************************************************)
splitLeadingRun(text, class) ==
    LET run == leadingRun(text, class)
        \* lengths the first group may take: 0 stands for the group left out
        fits == {j \in 0..run : /\ Len(text) - j >= 1
                                /\ \A i \in (j + 1)..Len(text) :
                                       text[i] \notin LineTerminators}
    IN  IF fits = {}
        THEN [operator |-> <<>>, version |-> text]
        ELSE LET j == CHOOSE x \in fits : \A y \in fits : y <= x
             IN  [operator |-> Prefix(text, j), version |-> Suffix(text, j)]

\* parseVersionSpec on raw text: /^([~^>=<!=]+)?(.+)$/
parseVersionSpecText(versionSpec) == splitLeadingRun(versionSpec, OperatorChars)

(***************************************************************************)
(* Calls of parseVersionSpec.                                              *)
(***************************************************************************)
\* the enumerated spec texts hold at most MaxSpecLen characters
MaxSpecLen == 3

SpecChars == {">", "=", "~", "1", "."}

SpecTexts == UNION {[1..k -> SpecChars] : k \in 0..MaxSpecLen}

InitSplit ==
    /\ HostIdle
    /\ fn = "parseVersionSpec"
    /\ pc = "call"
    /\ EngineIdle
    /\ specText \in SpecTexts
    /\ specParts = <<>>
    /\ doc = <<>>
    /\ patterns = <<>>
    /\ parser = ""
    /\ emitted = <<>>
    /\ result = <<>>

CallParseVersionSpec ==
    /\ pc = "call" /\ fn = "parseVersionSpec"
    /\ specParts' = parseVersionSpecText(specText)
    /\ pc' = "return"
    /\ UNCHANGED <<fn, op, v1, v2, pool, cmpResult, satResult, options>>
    /\ UNCHANGED <<specText, doc, patterns, parser, emitted, result>>
    /\ UNCHANGED hostVars

NextSplit == CallParseVersionSpec

SpecSplit == InitSplit /\ [][NextSplit]_vars

JsNull == <<"null">>

JsUndefined == <<"undefined">>

\* null where an object is expected
NullObject == [null |-> TRUE]

LowerLetters ==
    {"a", "b", "c", "d", "e", "f", "g", "h", "i", "j", "k", "l", "m",
     "n", "o", "p", "q", "r", "s", "t", "u", "v", "w", "x", "y", "z"}

UpperLetters ==
    {"A", "B", "C", "D", "E", "F", "G", "H", "I", "J", "K", "L", "M",
     "N", "O", "P", "Q", "R", "S", "T", "U", "V", "W", "X", "Y", "Z"}

Digits == {"0", "1", "2", "3", "4", "5", "6", "7", "8", "9"}

\* the characters trim() removes
Whitespace == {" ", "\t", "\r", "\n"}

UpperSeq ==
    <<"A", "B", "C", "D", "E", "F", "G", "H", "I", "J", "K", "L", "M",
      "N", "O", "P", "Q", "R", "S", "T", "U", "V", "W", "X", "Y", "Z">>

LowerSeq ==
    <<"a", "b", "c", "d", "e", "f", "g", "h", "i", "j", "k", "l", "m",
      "n", "o", "p", "q", "r", "s", "t", "u", "v", "w", "x", "y", "z">>

toLowerCase(text) ==
    [i \in 1..Len(text) |->
        IF text[i] \in UpperLetters
        THEN LowerSeq[CHOOSE k \in 1..26 : UpperSeq[k] = text[i]]
        ELSE text[i]]

startsWith(text, searchString) ==
    /\ Len(searchString) <= Len(text)
    /\ Prefix(text, Len(searchString)) = searchString

endsWith(text, searchString) ==
    /\ Len(searchString) <= Len(text)
    /\ Suffix(text, Len(text) - Len(searchString)) = searchString

\* the zero-based positions at which searchString occurs in text
occurrences(text, searchString) ==
    {i \in 0..(Len(text) - Len(searchString)) :
        SubSeq(text, i + 1, i + Len(searchString)) = searchString}

includes(text, searchString) == occurrences(text, searchString) # {}

indexOf(text, searchString) ==
    LET at == occurrences(text, searchString)
    IN  IF at = {} THEN -1 ELSE CHOOSE i \in at : \A j \in at : i <= j

RECURSIVE trimStart(_)
trimStart(text) ==
    IF text # <<>> /\ text[1] \in Whitespace THEN trimStart(Tail(text)) ELSE text

RECURSIVE trimEnd(_)
trimEnd(text) ==
    IF text # <<>> /\ text[Len(text)] \in Whitespace
    THEN trimEnd(Prefix(text, Len(text) - 1))
    ELSE text

trim(text) == trimEnd(trimStart(text))

\* text.split(separators)[0]: the text before the first separator character
RECURSIVE beforeFirst(_, _)
beforeFirst(text, separators) ==
    IF text = <<>> \/ text[1] \in separators
    THEN <<>>
    ELSE <<text[1]>> \o beforeFirst(Tail(text), separators)

\* lines.findIndex(test): the zero-based index of the first line that
\* passes, or -1; hits is the set of one-based indexes of passing lines
findIndex(hits) ==
    IF hits = {} THEN -1 ELSE (CHOOSE i \in hits : \A j \in hits : i <= j) - 1

(***************************************************************************)
(* Python requirement strings.                                             *)
(***************************************************************************)
\* [a-zA-Z0-9_.-]
NameChars == LowerLetters \cup UpperLetters \cup Digits \cup {"_", ".", "-"}

\* [a-zA-Z0-9_,.-]
ExtrasChars == NameChars \cup {","}

\* /^([a-zA-Z0-9_.-]+(?:\[[a-zA-Z0-9_,.-]*\])?)(.*)$/ and the three values
\* taken from the match; null when the text does not match
parsePEP508PackageSpec(packageSpec) ==
    LET run == leadingRun(packageSpec, NameChars)
        after == Suffix(packageSpec, run)
        inner == IF after # <<>> /\ after[1] = "["
                 THEN leadingRun(Tail(after), ExtrasChars) ELSE 0
        extras == IF /\ after # <<>> /\ after[1] = "["
                     /\ Len(after) >= inner + 2
                     /\ after[inner + 2] = "]"
                  THEN inner + 2 ELSE 0
        fullName == Prefix(packageSpec, run + extras)
        rest == Suffix(packageSpec, run + extras)
    IN  IF run = 0 \/ \E i \in 1..Len(rest) : rest[i] \in LineTerminators
        THEN NullObject
        ELSE [fullName |-> fullName,
              baseName |-> beforeFirst(fullName, {"["}),
              versionPart |-> trim(beforeFirst(rest, {";", "#"}))]

\* mutant: the dot is accepted in a name
isValidPythonPackageNameWithDots(packageName) ==
    /\ packageName # <<>>
    /\ \A i \in 1..Len(packageName) : packageName[i] \in NameChars

\* /^[a-zA-Z0-9_-]+$/, and neither '/' nor '@'
isValidPythonPackageName(packageName) ==
    /\ packageName # <<>>
    /\ \A i \in 1..Len(packageName) :
           packageName[i] \in (NameChars \ {"."}) \ {"/", "@"}

\* mutant: the empty text is kept instead of null
KeepEmpty(text) == text

\* x || null on a text
OrNull(text) == IF text = <<>> THEN JsNull ELSE text

(***************************************************************************)
(* RequirementsParser.                                                     *)
(***************************************************************************)
\* parseLine: the declaration of one line, or null
parseLine(line, lineIndex) ==
    LET cleanLine == trim(line)
        spec == parsePEP508PackageSpec(cleanLine)
    IN  IF cleanLine = <<>> \/ startsWith(cleanLine, <<"#">>) \/ startsWith(cleanLine, <<"-">>)
        THEN NullObject
        ELSE IF spec = NullObject
        THEN NullObject
        ELSE IF ~isValidPythonPackageName(spec.baseName)
        THEN NullObject
        ELSE LET split == parseVersionSpecText(spec.versionPart)
                 startChar == indexOf(line, spec.fullName)
             IN  [name |-> spec.fullName,
                  basePackageName |-> spec.baseName,
                  currentVersion |-> OrNull(split.version),
                  line |-> lineIndex,
                  startChar |-> startChar,
                  endChar |-> startChar + Len(spec.fullName) + Len(spec.versionPart),
                  versionConstraint |-> split.operator]

\* lines.forEach: the declarations of lines[from..], in line order
RECURSIVE requirementsFrom(_, _)
requirementsFrom(lines, from) ==
    IF from > Len(lines)
    THEN <<>>
    ELSE LET packageInfo == parseLine(lines[from], from - 1)
         IN  (IF packageInfo = NullObject THEN <<>> ELSE <<packageInfo>>)
                 \o requirementsFrom(lines, from + 1)

requirementsParse(document) == requirementsFrom(document.lines, 1)

requirementsCanParse(document) ==
    LET fileName == toLowerCase(document.fileName)
    IN  /\ includes(fileName, <<"r","e","q","u","i","r","e","m","e","n","t","s">>)
        /\ endsWith(fileName, <<".","t","x","t">>)

(***************************************************************************)
(* Structured documents.  TOML.parse and JSON.parse belong to libraries;   *)
(* a document carries, next to its lines, the value the library returns    *)
(* for its text: data.valid is FALSE when the library throws, and          *)
(* data.tables lists the key/value tables (and string arrays) of the       *)
(* text, each with its entries in the order Object.entries yields them.    *)
(* An entry is [name, type, version]: type "string" for name = "version",  *)
(* "object" for an inline table (version is JsUndefined when the table has *)
(* no version field), "item" for a string in an array and "number" for a   *)
(* numeric value.                                                          *)
(***************************************************************************)
NoData == [valid |-> FALSE, tables |-> <<>>]

\* parsed.a.b.c : the entries of the table at that key, <<>> when missing
entriesAt(data, key) ==
    LET at == {i \in 1..Len(data.tables) : data.tables[i].key = key}
    IN  IF at = {} THEN <<>> ELSE data.tables[CHOOSE i \in at : \A j \in at : i <= j].entries

\* array[index] || '' on the lines of a document
lineAt(lines, index) ==
    IF index >= 0 /\ index < Len(lines) THEN lines[index + 1] ELSE <<>>

\* if (pkg) packages.push(pkg), over the results of a forEach in order
RECURSIVE pushed(_)
pushed(results) ==
    IF results = <<>>
    THEN <<>>
    ELSE (IF Head(results) = NullObject THEN <<>> ELSE <<Head(results)>>)
             \o pushed(Tail(results))

(***************************************************************************)
(* PipfileParser.                                                          *)
(***************************************************************************)
pipfileCanParse(document) ==
    endsWith(toLowerCase(document.fileName), <<"p","i","p","f","i","l","e">>)

\* lines.findIndex(line => line.includes(`${packageName} =`)) || 0
pipfileFindPackageLineIndex(lines, packageName) ==
    LET found == findIndex({i \in 1..Len(lines) :
                                includes(lines[i], packageName \o <<" ", "=">>)})
    IN  IF found = 0 THEN 0 ELSE found

parsePackageDep(entry, lines) ==
    IF ~isValidPythonPackageName(entry.name)
    THEN NullObject
    ELSE LET versionStr ==
                 IF entry.type = "string" THEN entry.version
                 ELSE IF entry.type = "object" /\ entry.version \notin {JsUndefined, <<>>}
                 THEN entry.version
                 ELSE <<>>
             split == parseVersionSpecText(versionStr)
             lineIndex == pipfileFindPackageLineIndex(lines, entry.name)
             line == lineAt(lines, lineIndex)
             startChar == indexOf(line, entry.name)
         IN  [name |-> entry.name,
              basePackageName |-> JsUndefined,
              currentVersion |-> OrNull(split.version),
              line |-> lineIndex,
              startChar |-> Max(0, startChar),
              endChar |-> startChar + Len(entry.name) + Len(versionStr),
              versionConstraint |-> split.operator]

parsePackageSection(section, lines) ==
    pushed([i \in 1..Len(section) |-> parsePackageDep(section[i], lines)])

\* mutant: the failure of TOML.parse is not caught as the end of the parse
pipfileParseIgnoringFailure(document) ==
    parsePackageSection(entriesAt(document.data, "packages"), document.lines)
        \o parsePackageSection(entriesAt(document.data, "dev-packages"), document.lines)

\* TOML.parse throws before anything is pushed, and the catch returns packages
pipfileParse(document) ==
    IF ~document.data.valid
    THEN <<>>
    ELSE parsePackageSection(entriesAt(document.data, "packages"), document.lines)
             \o parsePackageSection(entriesAt(document.data, "dev-packages"), document.lines)

(***************************************************************************)
(* PyprojectParser.                                                        *)
(***************************************************************************)
pyprojectCanParse(document) ==
    endsWith(toLowerCase(document.fileName),
             <<"p","y","p","r","o","j","e","c","t",".","t","o","m","l">>)

findLineIndex(lines, searchText) ==
    LET exact == findIndex({i \in 1..Len(lines) : includes(lines[i], searchText)})
        packageName == trim(beforeFirst(searchText, {"="}))
        byName == findIndex({i \in 1..Len(lines) :
                      \/ startsWith(trim(lines[i]), packageName \o <<" ", "=">>)
                      \/ startsWith(trim(lines[i]), packageName \o <<"=">>)})
    IN  Max(0, IF exact = -1 THEN byName ELSE exact)

\* version is a text or JsNull
pyprojectCreatePackageInfo(name, version, operator, lines, searchText, basePackageName) ==
    LET lineIndex == findLineIndex(lines, searchText)
        line == lineAt(lines, lineIndex)
        startChar == indexOf(line, name)
    IN  [name |-> name,
         basePackageName |-> IF basePackageName = <<>> THEN name ELSE basePackageName,
         currentVersion |-> version,
         line |-> lineIndex,
         startChar |-> Max(0, startChar),
         endChar |-> startChar + Len(name)
                       + (IF version \in {JsNull, <<>>} THEN 0
                          ELSE Len(version) + Len(operator)),
         versionConstraint |-> operator]

parseDepString(entry, lines) ==
    LET depString == entry.name
        spec == parsePEP508PackageSpec(depString)
    IN  IF spec = NullObject
        THEN NullObject
        ELSE IF ~isValidPythonPackageName(spec.baseName)
        THEN NullObject
        ELSE LET split == parseVersionSpecText(spec.versionPart)
             IN  pyprojectCreatePackageInfo(spec.fullName, split.version, split.operator,
                                            lines, depString, spec.baseName)

parsePoetryDep(entry, lines) ==
    LET name == entry.name
        basePackageName == beforeFirst(name, {"["})
    IN  IF ~isValidPythonPackageName(basePackageName)
        THEN NullObject
        ELSE IF entry.type = "object" /\ entry.version \in {JsUndefined, <<>>}
        THEN NullObject
        ELSE LET versionStr == IF entry.type \in {"string", "object"} THEN entry.version ELSE <<>>
                 searchText ==
                     IF entry.type = "string"
                     THEN name \o <<" ", "=", " ", "\"">> \o versionStr \o <<"\"">>
                     ELSE IF entry.type = "object"
                     THEN name \o <<" ", "=", " ", "{">>
                     ELSE name
                 split == parseVersionSpecText(versionStr)
             IN  pyprojectCreatePackageInfo(name, split.version, split.operator,
                                            lines, searchText, basePackageName)

parsePEP621Dependencies(data, lines) ==
    LET deps == entriesAt(data, "project.dependencies")
        overrideDeps == entriesAt(data, "project.override-dependencies")
        devDeps == entriesAt(data, "project.dev-dependencies")
    IN  pushed([i \in 1..Len(deps) |-> parseDepString(deps[i], lines)])
            \o pushed([i \in 1..Len(overrideDeps) |-> parseDepString(overrideDeps[i], lines)])
            \o pushed([i \in 1..Len(devDeps) |-> parseDepString(devDeps[i], lines)])

parsePoetrySection(deps, lines) ==
    pushed([i \in 1..Len(deps) |->
               IF deps[i].name = <<"p","y","t","h","o","n">>
               THEN NullObject
               ELSE parsePoetryDep(deps[i], lines)])

parsePoetryDependencies(data, lines) ==
    parsePoetrySection(entriesAt(data, "tool.poetry.dependencies"), lines)
        \o parsePoetrySection(entriesAt(data, "tool.poetry.group.dev.dependencies"), lines)

pyprojectParse(document) ==
    IF ~document.data.valid
    THEN <<>>
    ELSE parsePEP621Dependencies(document.data, document.lines)
             \o parsePoetryDependencies(document.data, document.lines)

(***************************************************************************)
(* PackageJsonParser.                                                      *)
(***************************************************************************)
packageJsonCanParse(document) ==
    endsWith(toLowerCase(document.fileName),
             <<"p","a","c","k","a","g","e",".","j","s","o","n">>)

\* [a-z0-9-~]
NpmFirstChars == LowerLetters \cup Digits \cup {"-", "~"}

\* [a-z0-9-._~]
NpmChars == NpmFirstChars \cup {".", "_"}

\* [a-z0-9-~][a-z0-9-._~]*
isNpmNamePart(text) ==
    /\ text # <<>>
    /\ text[1] \in NpmFirstChars
    /\ \A i \in 2..Len(text) : text[i] \in NpmChars

\* /^(@[a-z0-9-~][a-z0-9-._~]*\/)?[a-z0-9-~][a-z0-9-._~]*$/
isValidNpmPackageName(name) ==
    \/ isNpmNamePart(name)
    \/ /\ name # <<>> /\ name[1] = "@"
       /\ LET scope == beforeFirst(Tail(name), {"/"})
          IN  /\ isNpmNamePart(scope)
              /\ Len(name) > Len(scope) + 1
              /\ isNpmNamePart(Suffix(name, Len(scope) + 2))

\* /^([~^>=<]*)(.+)$/
parseNpmVersion(version) == splitLeadingRun(version, {"~", "^", ">", "=", "<"})

quoted(text) == <<"\"">> \o text \o <<"\"">>

\* new RegExp(`"${name}"\\s*:`).test(line), the name escaped
hasKey(line, packageName) ==
    \E at \in occurrences(line, quoted(packageName)) :
        LET after == Suffix(line, at + Len(packageName) + 2)
            gap == leadingRun(after, Whitespace)
        IN  Len(after) > gap /\ after[gap + 1] = ":"

\* the loop of findPackageLocation from the line of one-based index i on
RECURSIVE locationFrom(_, _, _, _, _)
locationFrom(lines, i, inSection, packageName, section) ==
    IF i > Len(lines)
    THEN [line |-> 0, startChar |-> 0, endChar |-> 0]
    ELSE LET line == lines[i]
             trimmedLine == trim(line)
         IN  IF includes(trimmedLine, quoted(section))
             THEN locationFrom(lines, i + 1, TRUE, packageName, section)
             ELSE IF inSection /\ hasKey(line, packageName)
             THEN [line |-> i - 1,
                   startChar |-> indexOf(line, quoted(packageName)),
                   endChar |-> Len(line)]
             ELSE locationFrom(lines, i + 1, inSection /\ trimmedLine # <<"}">>,
                               packageName, section)

findPackageLocation(lines, packageName, section) ==
    locationFrom(lines, 1, FALSE, packageName, section)

parsePackage(entry, lines, section) ==
    IF ~isValidNpmPackageName(entry.name)
    THEN NullObject
    ELSE LET split == parseNpmVersion(entry.version)
             lineInfo == findPackageLocation(lines, entry.name, section)
         IN  [name |-> entry.name,
              basePackageName |-> entry.name,
              currentVersion |-> split.version,
              line |-> lineInfo.line,
              startChar |-> lineInfo.startChar,
              endChar |-> lineInfo.endChar,
              versionConstraint |-> split.operator]

\* version.match on a value that is not a string throws
parsePackageThrows(entry) ==
    isValidNpmPackageName(entry.name) /\ entry.type # "string"

\* the three sections as one list of [entry, section], in the order parsed
sectionEntries(data, key, section) ==
    LET entries == entriesAt(data, key)
    IN  [i \in 1..Len(entries) |-> [entry |-> entries[i], section |-> section]]

\* the try block runs until an entry throws; what was pushed so far stays
packageJsonParse(document) ==
    IF ~document.data.valid
    THEN <<>>
    ELSE LET all == sectionEntries(document.data, "dependencies", <<"d","e","p","e","n","d","e","n","c","i","e","s">>)
                    \o sectionEntries(document.data, "devDependencies", <<"d","e","v","D","e","p","e","n","d","e","n","c","i","e","s">>)
                    \o sectionEntries(document.data, "peerDependencies", <<"p","e","e","r","D","e","p","e","n","d","e","n","c","i","e","s">>)
             thrown == {i \in 1..Len(all) : parsePackageThrows(all[i].entry)}
             reached == IF thrown = {} THEN Len(all)
                        ELSE (CHOOSE i \in thrown : \A j \in thrown : i <= j) - 1
         IN  pushed([i \in 1..reached |->
                        parsePackage(all[i].entry, document.lines, all[i].section)])

(***************************************************************************)
(* SetupParser.                                                            *)
(***************************************************************************)
setupCanParse(document) ==
    endsWith(toLowerCase(document.fileName), <<"s","e","t","u","p",".","p","y">>)

\* document.getText(): the lines joined by '\n'
RECURSIVE getText(_)
getText(lines) ==
    IF lines = <<>> THEN <<>>
    ELSE IF Len(lines) = 1 THEN lines[1]
    ELSE lines[1] \o <<"\n">> \o getText(Tail(lines))

\* the text before the first character of class, Len + 1 when there is none
firstOf(text, class) ==
    LET at == {i \in 1..Len(text) : text[i] \in class}
    IN  IF at = {} THEN Len(text) + 1 ELSE CHOOSE i \in at : \A j \in at : i <= j

\* content.match(/keyword\s*=\s*OPEN([\s\S]*?)CLOSE/): the captured text of
\* the leftmost match, or JsNull
matchAssignment(content, keyword, open, close) ==
    LET captureAt(at) ==
            LET a == Suffix(content, at + Len(keyword))
                b == Suffix(a, leadingRun(a, Whitespace))
                c == IF b # <<>> /\ b[1] = "=" THEN Tail(b) ELSE JsNull
                d == IF c = JsNull THEN JsNull ELSE Suffix(c, leadingRun(c, Whitespace))
                e == IF d # JsNull /\ d # <<>> /\ d[1] = open THEN Tail(d) ELSE JsNull
            IN  IF e = JsNull \/ firstOf(e, {close}) > Len(e)
                THEN JsNull
                ELSE Prefix(e, firstOf(e, {close}) - 1)
        matching == {at \in occurrences(content, keyword) : captureAt(at) # JsNull}
    IN  IF matching = {} THEN JsNull
        ELSE captureAt(CHOOSE at \in matching : \A other \in matching : at <= other)

\* text.match(/\[([\s\S]*?)\]/g), each match without its brackets
RECURSIVE bracketLists(_)
bracketLists(text) ==
    LET p == firstOf(text, {"["})
        rest == Suffix(text, p)
        q == firstOf(rest, {"]"})
    IN  IF p > Len(text) \/ q > Len(rest)
        THEN <<>>
        ELSE <<Prefix(rest, q - 1)>> \o bracketLists(Suffix(rest, q))

\* listContent.match(/['"]([^'"]+)['"]/g), each match without its quotes
RECURSIVE quotedTokens(_)
quotedTokens(text) ==
    LET p == firstOf(text, {"'", "\""})
        rest == Suffix(text, p)
        q == firstOf(rest, {"'", "\""})
    IN  IF p > Len(text) \/ q > Len(rest)
        THEN <<>>
        ELSE IF q = 1
        THEN quotedTokens(rest)
        ELSE <<Prefix(rest, q - 1)>> \o quotedTokens(Suffix(rest, q))

\* lines.findIndex(line => line.includes(packageSpec)) || 0
setupFindPackageLineIndex(lines, packageSpec) ==
    LET found == findIndex({i \in 1..Len(lines) : includes(lines[i], packageSpec)})
    IN  IF found = 0 THEN 0 ELSE found

\* /^([a-zA-Z0-9_.-]+)(.*)$/ on one quoted token
parsePackageSpec(spec, lines) ==
    LET run == leadingRun(spec, NameChars)
        packageName == Prefix(spec, run)
        rest == Suffix(spec, run)
    IN  IF run = 0 \/ \E i \in 1..Len(rest) : rest[i] \in LineTerminators
        THEN NullObject
        ELSE IF ~isValidPythonPackageName(packageName)
        THEN NullObject
        ELSE LET versionPart == trim(beforeFirst(rest, {";", "#"}))
                 split == parseVersionSpecText(versionPart)
                 lineIndex == setupFindPackageLineIndex(lines, spec)
                 line == lineAt(lines, lineIndex)
                 startChar == indexOf(line, packageName)
             IN  [name |-> packageName,
                  basePackageName |-> JsUndefined,
                  currentVersion |-> OrNull(split.version),
                  line |-> lineIndex,
                  startChar |-> Max(0, startChar),
                  endChar |-> startChar + Len(packageName) + Len(versionPart),
                  versionConstraint |-> split.operator]

extractPackagesFromList(listContent, lines) ==
    LET packageMatches == quotedTokens(listContent)
    IN  pushed([i \in 1..Len(packageMatches) |-> parsePackageSpec(packageMatches[i], lines)])

parseInstallRequires(content, lines) ==
    LET requiresContent == matchAssignment(content,
            <<"i","n","s","t","a","l","l","_","r","e","q","u","i","r","e","s">>, "[", "]")
    IN  IF requiresContent = JsNull THEN <<>>
        ELSE extractPackagesFromList(requiresContent, lines)

\* the declarations of each bracketed list, in order
RECURSIVE extractEach(_, _)
extractEach(listMatches, lines) ==
    IF listMatches = <<>> THEN <<>>
    ELSE extractPackagesFromList(Head(listMatches), lines)
             \o extractEach(Tail(listMatches), lines)

parseExtrasRequire(content, lines) ==
    LET extrasContent == matchAssignment(content,
            <<"e","x","t","r","a","s","_","r","e","q","u","i","r","e">>, "{", "}")
    IN  IF extrasContent = JsNull THEN <<>>
        ELSE extractEach(bracketLists(extrasContent), lines)

setupParse(document) ==
    LET content == getText(document.lines)
    IN  parseInstallRequires(content, document.lines)
            \o parseExtrasRequire(content, document.lines)

(***************************************************************************)
(* Exclusion patterns.                                                     *)
(***************************************************************************)
\* pattern.replace(/\*/g, '.*').replace(/\?/g, '.'): the source of the
\* regular expression
RECURSIVE regexSource(_)
regexSource(pattern) ==
    IF pattern = <<>> THEN <<>>
    ELSE (CASE Head(pattern) = "*" -> <<".", "*">>
            [] Head(pattern) = "?" -> <<".">>
            [] OTHER -> <<Head(pattern)>>) \o regexSource(Tail(pattern))

\* new RegExp(source) throws a SyntaxError on a group that is never closed
regExpThrows(source) ==
    \E i \in 1..Len(source) :
        source[i] = "(" /\ \A j \in (i + 1)..Len(source) : source[j] # ")"

\* whether some prefix of text matches the source: '.' is any character but
\* a line terminator, x* any run of x, every other character itself
RECURSIVE matchesPrefix(_, _)
matchesPrefix(source, text) ==
    IF source = <<>>
    THEN TRUE
    ELSE LET accepts(c) == IF Head(source) = "." THEN c \notin LineTerminators
                           ELSE c = Head(source)
         IN  IF Len(source) >= 2 /\ source[2] = "*"
             THEN \E k \in 0..Len(text) :
                      /\ \A i \in 1..k : accepts(text[i])
                      /\ matchesPrefix(Suffix(source, 2), Suffix(text, k))
             ELSE /\ text # <<>>
                  /\ accepts(Head(text))
                  /\ matchesPrefix(Tail(source), Tail(text))

\* regex.test(text) for a regex without anchors: a match may start anywhere
regexTest(source, text) ==
    \E start \in 0..Len(text) : matchesPrefix(source, Suffix(text, start))

\* excludePatterns.some(...): "true", "false", or "throw" when a pattern
\* reached before any match makes new RegExp throw
RECURSIVE shouldExcludePackage(_, _)
shouldExcludePackage(packageName, excludePatterns) ==
    IF excludePatterns = <<>>
    THEN "false"
    ELSE LET source == regexSource(Head(excludePatterns))
         IN  IF regExpThrows(source) THEN "throw"
             ELSE IF regexTest(source, packageName) THEN "true"
             ELSE shouldExcludePackage(packageName, Tail(excludePatterns))

\* packages.filter(pkg => !shouldExcludePackage(pkg.name, excludePatterns))
RECURSIVE filterPackages(_, _)
filterPackages(packages, excludePatterns) ==
    IF packages = <<>>
    THEN [threw |-> FALSE, value |-> <<>>]
    ELSE LET excluded == shouldExcludePackage(Head(packages).name, excludePatterns)
             rest == filterPackages(Tail(packages), excludePatterns)
         IN  IF excluded = "throw" \/ rest.threw
             THEN [threw |-> TRUE, value |-> <<>>]
             ELSE [threw |-> FALSE,
                   value |-> (IF excluded = "true" THEN <<>> ELSE <<Head(packages)>>)
                                 \o rest.value]

(***************************************************************************)
(* ParserManager.                                                          *)
(***************************************************************************)
\* this.parsers, in the order of the constructor
parsers == <<"RequirementsParser", "PyprojectParser", "SetupParser",
             "PipfileParser", "PackageJsonParser">>

canParse(p, document) ==
    CASE p = "RequirementsParser" -> requirementsCanParse(document)
      [] p = "PyprojectParser" -> pyprojectCanParse(document)
      [] p = "SetupParser" -> setupCanParse(document)
      [] p = "PipfileParser" -> pipfileCanParse(document)
      [] p = "PackageJsonParser" -> packageJsonCanParse(document)

parse(p, document) ==
    CASE p = "RequirementsParser" -> requirementsParse(document)
      [] p = "PyprojectParser" -> pyprojectParse(document)
      [] p = "SetupParser" -> setupParse(document)
      [] p = "PipfileParser" -> pipfileParse(document)
      [] p = "PackageJsonParser" -> packageJsonParse(document)

\* mutant: the first parser of the list is used without asking canParse
findParserFirstInList(document) == parsers[1]

\* this.parsers.find(p => p.canParse(document)); "" stands for undefined
findParser(document) ==
    LET accepting == {i \in 1..Len(parsers) : canParse(parsers[i], document)}
    IN  IF accepting = {} THEN ""
        ELSE parsers[CHOOSE i \in accepting : \A j \in accepting : i <= j]

parseDocument(document, excludePatterns) ==
    LET selected == findParser(document)
    IN  IF selected = ""
        THEN [threw |-> FALSE, parser |-> "", packages |-> <<>>, value |-> <<>>]
        ELSE LET packages == parse(selected, document)
                 filtered == filterPackages(packages, excludePatterns)
             IN  [threw |-> filtered.threw, parser |-> selected,
                  packages |-> packages, value |-> filtered.value]

\* one call of parseDocument, to its return or to the exception that leaves it
CallParseDocument ==
    /\ pc = "call" /\ fn = "parseDocument"
    /\ \E outcome \in {parseDocument(doc, patterns)} :
           /\ parser' = outcome.parser
           /\ emitted' = outcome.packages
           /\ result' = outcome.value
           /\ pc' = IF outcome.threw THEN "throw" ELSE "return"
    /\ UNCHANGED <<fn, op, v1, v2, pool, cmpResult, satResult, options>>
    /\ UNCHANGED <<specText, specParts, doc, patterns>>
    /\ UNCHANGED hostVars

NextDocument == CallParseDocument

(***************************************************************************)
(* Documents.  A document is its file name, its lines, the value the       *)
(* structured-data library returns for its text, and the entries it was    *)
(* written from (origin), which only the properties read.                  *)
(***************************************************************************)
\* a requirements line: indent, name, extras, operator, version and tail
\* (marker or comment) of a requirement, or the text of another kind of line
RequirementLine(kind, indent, name, extras, operator, version, tail) ==
    [kind |-> kind, indent |-> indent, name |-> name, extras |-> extras,
     operator |-> operator, version |-> version, tail |-> tail]

renderRequirement(r) ==
    r.indent \o r.name \o r.extras \o r.operator \o r.version \o r.tail

NameOnly(name) == RequirementLine("package", <<>>, name, <<>>, <<>>, <<>>, <<>>)

RequirementsDocument(fileName, origin) ==
    [fileName |-> fileName,
     lines |-> [i \in 1..Len(origin) |-> renderRequirement(origin[i])],
     data |-> NoData,
     origin |-> origin,
     tail |-> <<>>]

\* the sequences over S of length at most n
SeqUpTo(S, n) == UNION {[1..k -> S] : k \in 0..n}

RequirementsTxt == <<"r", "e", "q", "u", "i", "r", "e", "m", "e", "n", "t", "s", ".", "t", "x", "t">>

(***************************************************************************)
(* Calls of parseDocument with configured exclusion patterns.              *)
(***************************************************************************)
\* documents hold at most MaxNames requirements, and the configuration at
\* most MaxPatterns exclusion patterns
MaxNames == 2

MaxPatterns == 2

ExclusionNames == {<<"t", "e", "s", "t", "-", "f", "o", "o">>, <<"f", "o", "o", "t", "e", "s", "t">>, <<"m", "y", "-", "t", "e", "s", "t", "-", "f", "o", "o">>, <<"f", "l", "a", "s", "k">>}

ExclusionPatterns == {<<"t", "e", "s", "t", "-", "*">>, <<"f", "o", "o", "?", "e", "s", "t">>, <<"f", "l", "(">>}

InitExclusion ==
    /\ HostIdle
    /\ fn = "parseDocument"
    /\ pc = "call"
    /\ EngineIdle
    /\ specText = <<>>
    /\ specParts = <<>>
    /\ \E names \in SeqUpTo(ExclusionNames, MaxNames) :
           doc = RequirementsDocument(RequirementsTxt,
                                      [i \in 1..Len(names) |-> NameOnly(names[i])])
    /\ patterns \in SeqUpTo(ExclusionPatterns, MaxPatterns)
    /\ parser = ""
    /\ emitted = <<>>
    /\ result = <<>>

SpecExclusion == InitExclusion /\ [][NextDocument]_vars

\* a glob pattern against a whole name: '*' is any run of characters, '?'
\* any single character, every other character itself
RECURSIVE globMatches(_, _)
globMatches(pattern, name) ==
    IF pattern = <<>>
    THEN name = <<>>
    ELSE IF Head(pattern) = "*"
    THEN \E k \in 0..Len(name) : globMatches(Tail(pattern), Suffix(name, k))
    ELSE /\ name # <<>>
         /\ Head(pattern) = "?" \/ Head(pattern) = Head(name)
         /\ globMatches(Tail(pattern), Tail(name))

MaxEntries == 2

Entry(name, type, version, style) ==
    [name |-> name, type |-> type, version |-> version, style |-> style]

\* what the library hands to the parser for an entry
dataOf(origin) ==
    [i \in 1..Len(origin) |->
        IF origin[i].type = "item"
        THEN [name |-> origin[i].name \o origin[i].version, type |-> "item",
              version |-> JsUndefined]
        ELSE [name |-> origin[i].name, type |-> origin[i].type,
              version |-> origin[i].version]]

hasUnclosed(origin) == \E i \in 1..Len(origin) : origin[i].style = "unclosed"

\* TOML forbids defining a key twice
hasDuplicate(origin) ==
    \E i, j \in 1..Len(origin) : i < j /\ origin[i].name = origin[j].name

\* the value of a TOML or JSON entry as written
renderValue(e) ==
    CASE e.type = "object" /\ e.version = JsUndefined -> <<"{", "g", "i", "t", " ", "=", " ", "\"", "x", "\"", "}">>
      [] e.type = "object" -> <<"{", "v", "e", "r", "s", "i", "o", "n", " ", "=", " ", "\"">> \o e.version \o <<"\"", "}">>
      [] e.type = "number" -> e.version
      [] e.style = "unclosed" -> <<"\"">> \o e.version
      [] OTHER -> quoted(e.version)

renderTomlEntry(e) ==
    CASE e.style = "tight" -> e.name \o <<"=">> \o renderValue(e)
      [] e.style = "quoted" -> quoted(e.name) \o <<" ", "=", " ">> \o renderValue(e)
      [] OTHER -> e.name \o <<" ", "=", " ">> \o renderValue(e)

TomlDocument(fileName, header, key, origin) ==
    [fileName |-> fileName,
     lines |-> <<header>> \o [i \in 1..Len(origin) |-> renderTomlEntry(origin[i])],
     data |-> [valid |-> ~(hasUnclosed(origin) \/ hasDuplicate(origin)),
               tables |-> <<[key |-> key, entries |-> dataOf(origin)]>>],
     origin |-> origin,
     tail |-> <<>>]

\* a string array under [project]: dependencies = [ "item", ... ]
renderItem(e) ==
    IF e.style = "unclosed" THEN <<" ", " ", " ", " ", "\"">> \o e.name \o e.version \o <<",">>
    ELSE <<" ", " ", " ", " ">>  \o quoted(e.name \o e.version) \o <<",">>

ProjectDocument(fileName, origin) ==
    [fileName |-> fileName,
     lines |-> <<<<"[", "p", "r", "o", "j", "e", "c", "t", "]">>, <<"d", "e", "p", "e", "n", "d", "e", "n", "c", "i", "e", "s", " ", "=", " ", "[">>>>
                   \o [i \in 1..Len(origin) |-> renderItem(origin[i])] \o <<<<"]">>>>,
     data |-> [valid |-> ~hasUnclosed(origin),
               tables |-> <<[key |-> "project.dependencies", entries |-> dataOf(origin)]>>],
     origin |-> origin,
     tail |-> <<>>]

\* "name": "version" with the comma JSON asks for between entries
renderJsonEntry(e, last) ==
    <<" ", " ", " ", " ">>  \o quoted(e.name)
        \o (CASE e.style = "tight" -> <<":">>
              [] e.style = "spaced" -> <<" ", ":", " ">>
              [] OTHER -> <<":", " ">>)
        \o renderValue(e) \o (IF last THEN <<>> ELSE <<",">>)

\* one dependencies table, followed when dev is set by a devDependencies
\* table with the single entry "jest": "^29"
JsonDocument(fileName, origin, dev) ==
    [fileName |-> fileName,
     lines |-> <<<<"{">>, <<" ", " ", "\"", "d", "e", "p", "e", "n", "d", "e", "n", "c", "i", "e", "s", "\"", ":", " ", "{">>>>
                   \o [i \in 1..Len(origin) |-> renderJsonEntry(origin[i], i = Len(origin))]
                   \o (IF dev
                       THEN <<<<" ", " ", "}", ",">>, <<" ", " ", "\"", "d", "e", "v", "D", "e", "p", "e", "n", "d", "e", "n", "c", "i", "e", "s", "\"", ":", " ", "{">>, <<" ", " ", " ", " ", "\"", "j", "e", "s", "t", "\"", ":", " ", "\"", "^", "2", "9", "\"">>, <<" ", " ", "}">>, <<"}">>>>
                       ELSE <<<<" ", " ", "}">>, <<"}">>>>),
     data |-> [valid |-> ~hasUnclosed(origin),
               tables |-> <<[key |-> "dependencies", entries |-> dataOf(origin)]>>
                   \o (IF dev
                       THEN <<[key |-> "devDependencies",
                               entries |-> <<[name |-> <<"j", "e", "s", "t">>, type |-> "string",
                                              version |-> <<"^", "2", "9">>]>>]>>
                       ELSE <<>>)],
     origin |-> origin,
     tail |-> IF dev THEN <<<<"j", "e", "s", "t">>>> ELSE <<>>]

\* a setup script: install_requires with one quoted requirement per line,
\* followed when extras is set by an extras_require with one list
renderSetupItem(e) ==
    IF e.style = "quoted"
    THEN <<" ", " ", " ", " ">>  \o quoted(e.name \o e.version) \o <<",">>
    ELSE <<" ", " ", " ", " ", "'">> \o e.name \o e.version \o <<"'", ",">>

SetupDocument(fileName, origin, extras) ==
    [fileName |-> fileName,
     lines |-> <<<<"s", "e", "t", "u", "p", "(">>, <<"i", "n", "s", "t", "a", "l", "l", "_", "r", "e", "q", "u", "i", "r", "e", "s", "=", "[">>>>
                   \o [i \in 1..Len(origin) |-> renderSetupItem(origin[i])]
                   \o (IF extras
                       THEN <<<<"]", ",">>, <<"e", "x", "t", "r", "a", "s", "_", "r", "e", "q", "u", "i", "r", "e", " ", "=", " ", "{", "'", "d", "e", "v", "'", ":", " ", "[", "'", "p", "y", "t", "e", "s", "t", "<", "8", "'", "]", "}", ",">>, <<")">>>>
                       ELSE <<<<"]", ",">>, <<")">>>>),
     data |-> NoData,
     origin |-> origin,
     tail |-> IF extras THEN <<<<"p", "y", "t", "e", "s", "t">>>> ELSE <<>>]

RequirementLines ==
    {RequirementLine("package", <<>>, <<"f", "l", "a", "s", "k">>, <<>>, <<"=", "=">>, <<"2", ".", "0">>, <<>>),
     RequirementLine("package", <<" ", " ">>, <<"n", "u", "m", "p", "y">>, <<>>, <<">", "=">>, <<"1">>, <<" ", " ", "#", " ", "p", "i", "n">>),
     RequirementLine("package", <<>>, <<"u", "v">>, <<"[", "s", "t", "d", "]">>, <<"~", "=">>, <<"0", ".", "2">>, <<"\r">>),
     RequirementLine("package", <<>>, <<"u", "v">>, <<"[", "s", "t", "d", "]">>, <<>>, <<>>, <<>>),
     RequirementLine("package", <<>>, <<"d", "j", "a", "n", "g", "o">>, <<>>, <<>>, <<>>, <<>>),
     RequirementLine("package", <<>>, <<"d", "j", "a", "n", "g", "o">>, <<>>, <<>>, <<>>, <<" ", ";", " ", "o", "s">>),
     RequirementLine("package", <<>>, <<"m", "y", ".", "p", "k", "g">>, <<>>, <<"=", "=">>, <<"1">>, <<>>),
     RequirementLine("package", <<>>, <<"f", "l", "a", "s", "k">>, <<>>, <<">", "=">>, <<>>, <<>>),
     RequirementLine("blank", <<>>, <<" ">>, <<>>, <<>>, <<>>, <<>>),
     RequirementLine("comment", <<>>, <<"#", " ", "f", "l", "a", "s", "k", "=", "=", "1">>, <<>>, <<>>, <<>>, <<>>),
     RequirementLine("option", <<>>, <<"-", "r", " ", "b", "a", "s", "e", ".", "t", "x", "t">>, <<>>, <<>>, <<>>, <<>>)}

PipfileEntries ==
    {Entry(<<"r", "e", "q", "u", "e", "s", "t", "s">>, "string", <<"=", "=", "2", ".", "0">>, "spaced"),
     Entry(<<"r", "e", "q", "u", "e", "s", "t", "s">>, "string", <<"*">>, "tight"),
     Entry(<<"t", "y", "p", "e", "s", "-", "r", "e", "q", "u", "e", "s", "t", "s">>, "string", <<"*">>, "spaced"),
     Entry(<<"m", "y", ".", "p", "k", "g">>, "string", <<"*">>, "quoted"),
     Entry(<<"f", "l", "a", "s", "k">>, "object", <<">", "=", "1">>, "spaced"),
     Entry(<<"f", "l", "a", "s", "k">>, "string", <<"=", "=", "1">>, "quoted"),
     Entry(<<"n", "u", "m", "p", "y">>, "string", <<"=", "=", "1">>, "unclosed")}

ProjectItems ==
    {Entry(<<"f", "l", "a", "s", "k">>, "item", <<">", "=", "1", ".", "0">>, "quoted"),
     Entry(<<"u", "v", "[", "s", "t", "d", "]">>, "item", <<"=", "=", "0", ".", "2">>, "quoted"),
     Entry(<<"m", "y", ".", "p", "k", "g">>, "item", <<>>, "quoted"),
     Entry(<<"d", "j", "a", "n", "g", "o">>, "item", <<>>, "quoted"),
     Entry(<<"n", "u", "m", "p", "y">>, "item", <<>>, "unclosed")}

PoetryEntries ==
    {Entry(<<"p", "y", "t", "h", "o", "n">>, "string", <<"^", "3", ".", "8">>, "spaced"),
     Entry(<<"f", "l", "a", "s", "k">>, "string", <<"^", "1", ".", "0">>, "spaced"),
     Entry(<<"f", "l", "a", "s", "k">>, "string", <<"^", "1", ".", "0">>, "tight"),
     Entry(<<"d", "j", "a", "n", "g", "o">>, "string", <<"4">>, "quoted"),
     Entry(<<"u", "v">>, "object", <<"^", "1">>, "spaced"),
     Entry(<<"l", "i", "b">>, "object", JsUndefined, "spaced"),
     Entry(<<"m", "y", ".", "p", "k", "g">>, "string", <<"1">>, "quoted"),
     Entry(<<"n", "u", "m", "p", "y">>, "string", <<"1">>, "unclosed")}

JsonEntries ==
    {Entry(<<"l", "e", "f", "t", "-", "p", "a", "d">>, "string", <<"^", "1", ".", "0", ".", "0">>, "plain"),
     Entry(<<"@", "s", "c", "o", "p", "e", "/", "p", "k", "g">>, "string", <<"~", "2", ".", "0">>, "tight"),
     Entry(<<"B", "a", "d", "_", "N", "a", "m", "e">>, "string", <<"1", ".", "0">>, "plain"),
     Entry(<<"l", "o", "d", "a", "s", "h">>, "string", <<"l", "a", "t", "e", "s", "t">>, "spaced"),
     Entry(<<"j", "q", "u", "e", "r", "y">>, "string", <<"3">>, "unclosed")}

SetupItems ==
    {Entry(<<"f", "l", "a", "s", "k">>, "item", <<">", "=", "1", ".", "0">>, "plain"),
     Entry(<<"d", "j", "a", "n", "g", "o">>, "item", <<>>, "quoted"),
     Entry(<<"m", "y", ".", "p", "k", "g">>, "item", <<"=", "=", "1">>, "plain"),
     Entry(<<"u", "v">>, "item", <<" ", ";", " ", "o", "s">>, "plain")}

\* JSON.parse keeps one entry per key: the written entries have distinct names
Distinct(S, n) == {s \in SeqUpTo(S, n) : ~hasDuplicate(s)}

PipfileName == <<"P", "i", "p", "f", "i", "l", "e">>

PyprojectName == <<"p", "y", "p", "r", "o", "j", "e", "c", "t", ".", "t", "o", "m", "l">>

PackageJsonName == <<"p", "a", "c", "k", "a", "g", "e", ".", "j", "s", "o", "n">>

SetupName == <<"s", "e", "t", "u", "p", ".", "p", "y">>

\* file names no parser accepts, and a requirements list under another name
OtherNames ==
    {<<"R", "E", "A", "D", "M", "E", ".", "m", "d">>, <<"r", "e", "q", "u", "i", "r", "e", "m", "e", "n", "t", "s", ".", "i", "n">>, <<"n", "o", "t", "e", "s", ".", "t", "x", "t">>, <<"P", "i", "p", "f", "i", "l", "e", ".", "l", "o", "c", "k">>,
     <<"D", "e", "v", "-", "R", "e", "q", "u", "i", "r", "e", "m", "e", "n", "t", "s", ".", "T", "X", "T">>}

\* a Pipfile in a directory, its name in upper case
UpperPipfileName == <<"a", "p", "p", "/", "P", "I", "P", "F", "I", "L", "E">>

Documents ==
    {RequirementsDocument(RequirementsTxt, o) : o \in SeqUpTo(RequirementLines, MaxEntries)}
    \cup {RequirementsDocument(f, <<o>>) : f \in OtherNames, o \in RequirementLines}
    \cup {TomlDocument(f, <<"[", "p", "a", "c", "k", "a", "g", "e", "s", "]">>, "packages", o) :
              f \in {PipfileName, UpperPipfileName}, o \in SeqUpTo(PipfileEntries, MaxEntries)}
    \cup {ProjectDocument(PyprojectName, o) : o \in SeqUpTo(ProjectItems, MaxEntries)}
    \cup {TomlDocument(PyprojectName, <<"[", "t", "o", "o", "l", ".", "p", "o", "e", "t", "r", "y", ".", "d", "e", "p", "e", "n", "d", "e", "n", "c", "i", "e", "s", "]">>,
                       "tool.poetry.dependencies", o) :
              o \in SeqUpTo(PoetryEntries, MaxEntries)}
    \cup {JsonDocument(PackageJsonName, o, dev) :
              o \in Distinct(JsonEntries, MaxEntries), dev \in BOOLEAN}
    \cup {SetupDocument(SetupName, o, extras) :
              o \in SeqUpTo(SetupItems, MaxEntries), extras \in BOOLEAN}

(***************************************************************************)
(* Calls of parseDocument under the default configuration, whose list of   *)
(* exclusion patterns is empty.                                            *)
(***************************************************************************)
InitDocument ==
    /\ HostIdle
    /\ fn = "parseDocument"
    /\ pc = "call"
    /\ EngineIdle
    /\ specText = <<>>
    /\ specParts = <<>>
    /\ doc \in Documents
    /\ patterns = <<>>
    /\ parser = ""
    /\ emitted = <<>>
    /\ result = <<>>

SpecDocument == InitDocument /\ [][NextDocument]_vars

(***************************************************************************)
(* Properties of the parser dispatcher and of the five parsers.            *)
(***************************************************************************)
\* the parsers in the order the dispatcher is said to try them
ClaimedOrder == <<"RequirementsParser", "PyprojectParser", "SetupParser",
                  "PipfileParser", "PackageJsonParser">>

\* C12: parseDocument uses the first parser, in the order requirements
\* list, pyproject descriptor, setup script, Pipfile, package.json, whose
\* canParse accepts the document, and returns an empty list when none does.
C12_FirstAcceptingParserIsUsed ==
    Returned("parseDocument") =>
        LET accepting == {i \in 1..Len(ClaimedOrder) : canParse(ClaimedOrder[i], doc)}
        IN  IF accepting = {}
            THEN parser = "" /\ result = <<>>
            ELSE \E i \in accepting :
                     /\ \A j \in accepting : i <= j
                     /\ parser = ClaimedOrder[i]
                     /\ emitted = parse(ClaimedOrder[i], doc)

\* a Pipfile went to the fourth parser, after three parsers refused it
C12_Witness ==
    /\ Returned("parseDocument")
    /\ parser = "PipfileParser"
    /\ ~canParse("RequirementsParser", doc)
    /\ emitted # <<>>

\* a document no parser accepts came back with the empty list
C12_WitnessNoParser ==
    /\ Returned("parseDocument")
    /\ parser = ""
    /\ result = <<>>
    /\ doc.lines # <<>>

\* the parsers that read their text through TOML.parse or JSON.parse
StructuredParsers == {"PyprojectParser", "PipfileParser", "PackageJsonParser"}

\* C15: when the text of a pyproject descriptor, Pipfile or package.json is
\* malformed, parse catches the failure and the document yields zero
\* declarations.
C15_MalformedTextYieldsNoDeclarations ==
    (Returned("parseDocument") /\ parser \in StructuredParsers /\ ~doc.data.valid)
        => emitted = <<>> /\ result = <<>>

\* a malformed Pipfile with an entry a reader can make out came back empty
C15_Witness ==
    /\ Returned("parseDocument")
    /\ parser = "PipfileParser"
    /\ ~doc.data.valid
    /\ \E i \in 1..Len(doc.origin) : doc.origin[i].style # "unclosed"
    /\ emitted = <<>>

\* the name grammar of the Python formats: letters, digits, '_' and '-'
PythonNameOk(name) ==
    /\ Len(name) >= 1
    /\ \A i \in 1..Len(name) :
           name[i] \in LowerLetters \cup UpperLetters \cup Digits \cup {"_", "-"}

\* the name grammar of package.json: an optional @scope/ prefix, then
\* lower-case letters, digits and -._~ , neither part starting with . or _
NpmNameOk(name) ==
    LET part(t) == /\ Len(t) >= 1
                   /\ t[1] \notin {".", "_"}
                   /\ \A i \in 1..Len(t) :
                          t[i] \in LowerLetters \cup Digits \cup {"-", ".", "_", "~"}
        slash == firstOf(name, {"/"})
    IN  IF name # <<>> /\ name[1] = "@"
        THEN /\ slash <= Len(name)
             /\ part(SubSeq(name, 2, slash - 1))
             /\ part(Suffix(name, slash))
        ELSE part(name)

\* whether entry e of a document read by parser p is a declaration: its
\* name is valid, and it is neither a line of another kind, nor the python
\* key of a Poetry table, nor a table without a version field
Declares(p, e) ==
    CASE p = "RequirementsParser" -> e.kind = "package" /\ PythonNameOk(e.name)
      [] p = "PyprojectParser" ->
             /\ PythonNameOk(beforeFirst(e.name, {"["}))
             /\ e.name # <<"p", "y", "t", "h", "o", "n">>
             /\ ~(e.type = "object" /\ e.version = JsUndefined)
      [] p = "PackageJsonParser" -> NpmNameOk(e.name)
      [] OTHER -> PythonNameOk(e.name)

\* the name entry e declares
DeclaredName(p, e) == IF p = "RequirementsParser" THEN e.name \o e.extras ELSE e.name

\* the indexes of the entries of the document that are declarations, and
\* the k-th of them in document order
Declaring(p, document) ==
    {i \in 1..Len(document.origin) : Declares(p, document.origin[i])}

Kth(S, k) == CHOOSE i \in S : Cardinality({j \in S : j <= i}) = k

\* the text is read at all: it is no malformed structured text
Readable(p, document) == p \notin StructuredParsers \/ document.data.valid

\* C16: in every format an entry with an invalid name produces no
\* declaration, and every other entry of the document still produces its
\* declaration, in the original order.
C16_InvalidNamesSkippedOthersKept ==
    (Returned("parseDocument") /\ parser # "" /\ Readable(parser, doc)) =>
        LET declaring == Declaring(parser, doc)
            n == Cardinality(declaring)
        IN  /\ Len(emitted) = n + Len(doc.tail)
            /\ \A k \in 1..n :
                   emitted[k].name = DeclaredName(parser, doc.origin[Kth(declaring, k)])
            /\ \A k \in 1..Len(doc.tail) : emitted[n + k].name = doc.tail[k]

\* an entry with an invalid name stood before a valid one, which was declared
C16_Witness ==
    /\ Returned("parseDocument")
    /\ parser = "PackageJsonParser"
    /\ doc.data.valid
    /\ Len(doc.origin) = 2
    /\ ~NpmNameOk(doc.origin[1].name)
    /\ Len(emitted) >= 1
    /\ emitted[1].name = doc.origin[2].name

\* C17: every declaration of any of the five parsers has a start offset
\* >= 0 and an end offset >= its start offset, also when its anchor text is
\* not on the reported line.
C17_OffsetsOrdered ==
    Returned("parseDocument") =>
        \A i \in 1..Len(emitted) :
            emitted[i].startChar >= 0 /\ emitted[i].endChar >= emitted[i].startChar

\* a declaration whose name is not on the line it reports
C17_Witness ==
    /\ Returned("parseDocument")
    /\ \E i \in 1..Len(emitted) :
           /\ ~includes(lineAt(doc.lines, emitted[i].line), emitted[i].name)
           /\ emitted[i].startChar = 0
           /\ emitted[i].endChar > 0

\* C18 (as claimed): a declaration whose anchor line is not found is still
\* emitted, with line index 0 and start offset 0, and no parser emits a
\* negative line index.
C18_MissingAnchorReportsLineZero ==
    Returned("parseDocument") =>
        \A i \in 1..Len(emitted) :
            /\ emitted[i].line >= 0
            /\ ~includes(lineAt(doc.lines, emitted[i].line), emitted[i].name)
                   => emitted[i].line = 0 /\ emitted[i].startChar = 0

\* C19 (as claimed): RequirementsParser.parse emits exactly one declaration
\* for each line that is a requirement with a valid name, in line order,
\* with the zero-based index of the line and the name, operator and version
\* written on it; blank, comment and option lines yield none.
C19_OneDeclarationPerRequirementLine ==
    (Returned("parseDocument") /\ parser = "RequirementsParser") =>
        LET declaring == Declaring(parser, doc)
        IN  /\ Len(emitted) = Cardinality(declaring)
            /\ \A k \in 1..Len(emitted) :
                   LET i == Kth(declaring, k)
                   IN  /\ emitted[k].line = i - 1
                       /\ emitted[k].name = doc.origin[i].name \o doc.origin[i].extras
                       /\ emitted[k].versionConstraint = doc.origin[i].operator
                       /\ emitted[k].currentVersion = OrNull(doc.origin[i].version)

\* the same, for documents in which every operator is followed by a version
C19_HoldsWhenVersionFollowsOperator ==
    (/\ parser = "RequirementsParser"
     /\ \A i \in 1..Len(doc.origin) :
            doc.origin[i].kind = "package" /\ doc.origin[i].operator # <<>>
                => doc.origin[i].version # <<>>)
        => C19_OneDeclarationPerRequirementLine

\* C20: a requirements line that holds only a package name still yields its
\* declaration, with current version null and an empty operator.
C20_NameOnlyLineHasNullVersion ==
    (Returned("parseDocument") /\ parser = "RequirementsParser") =>
        \A i \in Declaring(parser, doc) :
            (doc.origin[i].operator = <<>> /\ doc.origin[i].version = <<>>) =>
                \E k \in 1..Len(emitted) :
                    /\ emitted[k].line = i - 1
                    /\ emitted[k].name = doc.origin[i].name \o doc.origin[i].extras
                    /\ emitted[k].currentVersion = JsNull
                    /\ emitted[k].versionConstraint = <<>>

\* a name-only line after a line of another kind was declared
C20_Witness ==
    /\ Returned("parseDocument")
    /\ parser = "RequirementsParser"
    /\ Len(doc.origin) = 2
    /\ doc.origin[1].kind = "comment"
    /\ doc.origin[2] = NameOnly(<<"d", "j", "a", "n", "g", "o">>)
    /\ Len(emitted) = 1
    /\ emitted[1].line = 1
    /\ emitted[1].currentVersion = JsNull

(***************************************************************************)
(* Properties of the Pipfile parser and of the base names.                 *)
(***************************************************************************)
\* the entries of the document that declare the name of declaration p
EntriesOf(document, p) ==
    {i \in 1..Len(document.origin) : document.origin[i].name = p.name}

\* C21 (as claimed): in the Pipfile parser an entry whose value is the
\* string "*" yields a declaration with an empty or absent current version
\* and an empty operator, not a current version of "*".
C21_StarEntryHasNoVersion ==
    (Returned("parseDocument") /\ parser = "PipfileParser") =>
        \A k \in 1..Len(emitted) :
            (\E i \in EntriesOf(doc, emitted[k]) :
                 doc.origin[i].type = "string" /\ doc.origin[i].version = <<"*">>)
                => /\ emitted[k].currentVersion \in {JsNull, <<>>}
                   /\ emitted[k].versionConstraint = <<>>

\* the name grammar of the ecosystem of parser p
NameOk(p, name) == IF p = "PackageJsonParser" THEN NpmNameOk(name) ELSE PythonNameOk(name)

\* C22 (as claimed): every declaration of any of the five parsers carries a
\* base name that is non-empty, satisfies the name grammar of its ecosystem
\* and equals the declared name with any bracketed extras suffix removed.
C22_BaseNameIsNameWithoutExtras ==
    (Returned("parseDocument") /\ parser # "") =>
        \A k \in 1..Len(emitted) :
            /\ emitted[k].basePackageName # JsUndefined
            /\ emitted[k].basePackageName # <<>>
            /\ NameOk(parser, emitted[k].basePackageName)
            /\ emitted[k].basePackageName = beforeFirst(emitted[k].name, {"["})

\* the same, for the three parsers that set the base name
C22_HoldsWhereBaseNameIsSet ==
    parser \in {"RequirementsParser", "PyprojectParser", "PackageJsonParser"}
        => C22_BaseNameIsNameWithoutExtras

\* the lines of the document whose key is exactly the name, followed by " ="
KeyLines(document, name) ==
    {i \in 1..Len(document.lines) : startsWith(document.lines[i], name \o <<" ", "=">>)}

\* C30 (as claimed): for every declaration of the Pipfile parser, whenever
\* a line of the document has exactly the declared name as its key,
\* followed by " =", the reported line index is the index of such a line,
\* and not that of an earlier line assigning a package whose name merely
\* ends with the declared name.
C30_LineIsTheLineOfTheKey ==
    (Returned("parseDocument") /\ parser = "PipfileParser") =>
        \A k \in 1..Len(emitted) :
            KeyLines(doc, emitted[k].name) # {}
                => emitted[k].line + 1 \in KeyLines(doc, emitted[k].name)

\* the same, for documents in which no key ends with another key
C30_HoldsWithoutSuffixKeys ==
    (\A i, j \in 1..Len(doc.origin) :
         doc.origin[i].name # doc.origin[j].name
             => ~endsWith(doc.origin[i].name, doc.origin[j].name))
        => C30_LineIsTheLineOfTheKey

(***************************************************************************)
(* PythonVersionCodeLensProvider (decorationManager.ts).  The provider     *)
(* holds packages whose name is a plain string and whose versions are      *)
(* version texts of the engine; a current or latest version that is null   *)
(* is Null and the empty string is EmptyText.  registry maps a package     *)
(* name to the version strings its registry lists; a name outside its      *)
(* domain is a package the version service answers null for.  A lens is    *)
(* [name, line, label, version].                                           *)
(***************************************************************************)
ProviderPackage(name, versionConstraint, currentVersion, latestVersion, line) ==
    [name |-> name, versionConstraint |-> versionConstraint,
     currentVersion |-> currentVersion, latestVersion |-> latestVersion,
     line |-> line]

\* the latest version the extension stores when it has none: 'unknown'
UnknownVersion == <<T(NoDigits, "unknown")>>

\* /^\d+\.\d+(\.\d+)?$/.test(v): two or three components, digits only (the
\* includes('a'), ('b'), ('rc') ... tests reject nothing this one accepts)
isStableRelease(v) ==
    /\ Len(v) \in {2, 3}
    /\ \A i \in 1..Len(v) : v[i].n # NoDigits /\ v[i].sfx = ""

\* getAllVersions: the stable releases of the package, highest first; []
\* when the service has no answer
getAllVersions(packageName, listed) ==
    IF packageName \notin DOMAIN listed
    THEN <<>>
    ELSE sortDescending(SelectSeq(listed[packageName], isStableRelease))

\* const priority = { satisfies: 4, patch: 3, minor: 2, major: 1 }
priority == [satisfies |-> 4, patch |-> 3, minor |-> 2, major |-> 1]

\* the keys of the options array, in its order
optionKeys == <<"satisfies", "major", "minor", "patch">>

\* mutant: a later option always takes the place of the one in the map
outranksAlways(key, existingKey) == TRUE

\* priority[option.key] > priority[existing.key]
outranks(key, existingKey) == priority[key] > priority[existingKey]

\* versionMap.get(version): the position of the entry, 0 when there is none
mapGet(versionMap, version) ==
    LET at == {i \in 1..Len(versionMap) : versionMap[i].version = version}
    IN  IF at = {} THEN 0 ELSE CHOOSE i \in at : TRUE

\* versionMap.set(option.version, option): a Map keeps the position of a
\* key it already holds
mapSet(versionMap, option) ==
    LET at == mapGet(versionMap, option.version)
    IN  IF at = 0
        THEN Append(versionMap, option)
        ELSE [versionMap EXCEPT ![at] = option]

\* options.forEach(option => ...) from option i on
RECURSIVE dedupeOptions(_, _, _, _)
dedupeOptions(upgradeOptions, currentVersion, i, versionMap) ==
    IF i > Len(optionKeys)
    THEN versionMap
    ELSE LET key == optionKeys[i]
             version == upgradeOptions[key]
             shouldShow == key = "satisfies" \/ version # currentVersion
             existing == mapGet(versionMap, version)
             kept == IF /\ version \notin {Null, EmptyText}
                        /\ shouldShow
                        /\ (existing = 0 \/ outranks(key, versionMap[existing].key))
                     THEN mapSet(versionMap, [version |-> version, key |-> key])
                     ELSE versionMap
         IN  dedupeOptions(upgradeOptions, currentVersion, i + 1, kept)

\* getUpgradeOptions on the version spec the provider assembles:
\* versionConstraint ? `${versionConstraint}${currentVersion}` : currentVersion || ''
getUpgradeOptions(pkg, allVersions) ==
    getVersionUpgradeOptions([prefix |-> pkg.versionConstraint,
                              rest |-> pkg.currentVersion], allVersions)

\* the lenses of one package that passed the duplicate check
packageLenses(pkg, listed) ==
    IF \/ pkg.latestVersion \in {Null, EmptyText, UnknownVersion}
       \/ pkg.currentVersion \in {Null, EmptyText}
    THEN <<>>
    ELSE LET allVersions == getAllVersions(pkg.name, listed)
             versionMap == dedupeOptions(getUpgradeOptions(pkg, allVersions),
                                         pkg.currentVersion, 1, <<>>)
         IN  IF Len(allVersions) = 0
             THEN <<>>
             ELSE [i \in 1..Len(versionMap) |->
                      [name |-> pkg.name, line |-> pkg.line,
                       label |-> versionMap[i].key,
                       version |-> versionMap[i].version]]

\* the loop over this.packages while the loading flag is set
RECURSIVE loadingLenses(_, _, _)
loadingLenses(pkgs, i, processedPackages) ==
    IF i > Len(pkgs) THEN <<>>
    ELSE IF pkgs[i].name \in processedPackages
    THEN loadingLenses(pkgs, i + 1, processedPackages)
    ELSE <<[name |-> pkgs[i].name, line |-> pkgs[i].line,
            label |-> "loading", version |-> Null]>>
             \o loadingLenses(pkgs, i + 1, processedPackages \cup {pkgs[i].name})

\* the loop over this.packages that builds the upgrade lenses
RECURSIVE upgradeLenses(_, _, _, _)
upgradeLenses(pkgs, listed, i, processedPackages) ==
    IF i > Len(pkgs) THEN <<>>
    ELSE IF pkgs[i].name \in processedPackages
    THEN upgradeLenses(pkgs, listed, i + 1, processedPackages)
    ELSE packageLenses(pkgs[i], listed)
             \o upgradeLenses(pkgs, listed, i + 1, processedPackages \cup {pkgs[i].name})

\* mutant: the provider does not ask the DecorationManager whether it is enabled
provideCodeLensesUnchecked(isEnabled, loading, pkgs, listed) ==
    IF loading /\ Len(pkgs) > 0
    THEN loadingLenses(pkgs, 1, {})
    ELSE upgradeLenses(pkgs, listed, 1, {})

provideCodeLenses(isEnabled, loading, pkgs, listed) ==
    IF ~isEnabled
    THEN <<>>
    ELSE IF loading /\ Len(pkgs) > 0
    THEN loadingLenses(pkgs, 1, {})
    ELSE upgradeLenses(pkgs, listed, 1, {})

(***************************************************************************)
(* Calls of provideCodeLenses on a provider that holds the declarations    *)
(* of one package.                                                         *)
(***************************************************************************)
\* the pure core and the manifest layer take no part
CoreIdle ==
    /\ EngineIdle
    /\ ManifestIdle

\* what the registry of the provider lists: the releases getAllVersions
\* keeps, and a pre-release it drops
LensPools ==
    UNION {[1..k -> {v \in KnownVersions : isStableRelease(v)}
                        \cup {<<D(2), D(0), T(0, "rc1")>>}] : k \in 0..MaxPool}

LensPackages ==
    {ProviderPackage("flask", o, v, <<D(2), D(0), D(0)>>, 0) :
         o \in Operators, v \in DottedNumeric}

\* packages without versions to show, and a declaration held twice
OddPackages ==
    {<<ProviderPackage("flask", ">=", <<D(1), D(0)>>, latest, 0)>> :
         latest \in {Null, EmptyText, UnknownVersion}}
    \cup {<<ProviderPackage("flask", "", Null, <<D(2), D(0), D(0)>>, 0)>>,
          <<ProviderPackage("flask", ">=", <<D(1), D(0)>>, <<D(2), D(0), D(0)>>, 0),
            ProviderPackage("flask", "==", <<D(1), D(1)>>, <<D(2), D(0), D(0)>>, 1)>>}

InitLens ==
    /\ fn = "provideCodeLenses"
    /\ pc = "call"
    /\ CoreIdle
    /\ ServiceIdle
    /\ WatcherIdle
    /\ ExtensionIdle
    /\ lenses = <<>>
    /\ \/ /\ enabled = TRUE
          /\ isLoading = FALSE
          /\ shownPackages \in {<<p>> : p \in LensPackages}
          /\ registry \in {[n \in {"flask"} |-> listed] : listed \in LensPools}
       \/ /\ enabled \in BOOLEAN
          /\ isLoading \in BOOLEAN
          /\ shownPackages \in OddPackages \cup {<<>>}
          /\ registry \in {[n \in {"flask"} |-> Scenario4Pool], [n \in {} |-> <<>>]}

CallProvideCodeLenses ==
    /\ pc = "call" /\ fn = "provideCodeLenses"
    /\ lenses' = provideCodeLenses(enabled, isLoading, shownPackages, registry)
    /\ pc' = "return"
    /\ UNCHANGED <<fn, op, v1, v2, pool, cmpResult, satResult, options>>
    /\ UNCHANGED manifestVars
    /\ UNCHANGED <<enabled, isLoading, shownPackages, registry>>
    /\ UNCHANGED serviceVars
    /\ UNCHANGED watcherVars
    /\ UNCHANGED extensionVars

NextLens == CallProvideCodeLenses

SpecLens == InitLens /\ [][NextLens]_vars

(***************************************************************************)
(* Properties of the lenses.                                               *)
(***************************************************************************)
\* the four upgrade slots of the first package the provider holds
SlotsOfFirst ==
    getUpgradeOptions(shownPackages[1], getAllVersions(shownPackages[1].name, registry))

\* the upgrade lenses were built from the slots of the first package
BuiltFromSlots ==
    /\ Returned("provideCodeLenses")
    /\ enabled /\ ~isLoading
    /\ shownPackages # <<>>
    /\ shownPackages[1].latestVersion \notin {Null, EmptyText, UnknownVersion}
    /\ shownPackages[1].currentVersion \notin {Null, EmptyText}
    /\ getAllVersions(shownPackages[1].name, registry) # <<>>

\* C23: when the lenses of one package are built from its four upgrade
\* slots, each distinct version string is shown at most once, under the
\* highest-priority label among the slots that resolved to it
\* (satisfies > patch > minor > major), and a non-null satisfies slot is
\* always shown.
C23_OneLensPerVersionUnderBestLabel ==
    BuiltFromSlots =>
        /\ \A i, j \in 1..Len(lenses) :
               lenses[i].version = lenses[j].version => i = j
        /\ \A i \in 1..Len(lenses) :
               /\ lenses[i].label \in Slots
               /\ SlotsOfFirst[lenses[i].label] = lenses[i].version
               /\ \A k \in Slots :
                      SlotsOfFirst[k] = lenses[i].version
                          => priority[lenses[i].label] >= priority[k]
        /\ SlotsOfFirst.satisfies # Null
               => \E i \in 1..Len(lenses) :
                      /\ lenses[i].label = "satisfies"
                      /\ lenses[i].version = SlotsOfFirst.satisfies

\* the satisfies and the major slot resolved to one version, shown once
C23_Witness ==
    /\ BuiltFromSlots
    /\ SlotsOfFirst.satisfies # Null
    /\ SlotsOfFirst.satisfies = SlotsOfFirst.major
    /\ SlotsOfFirst.minor # Null
    /\ Len(lenses) = 2
    /\ lenses[1].label = "satisfies"

(***************************************************************************)
(* VersionService (versionService.ts); NpmVersionService (part_005) has    *)
(* the same cache and the same retry loop.  cache maps a package name to   *)
(* its entry [data, timestamp], NullObject when the Map has none; now is   *)
(* Date.now() in milliseconds.  calls is the log of the getPackageInfo     *)
(* calls: a call is "requesting" while client.get is awaited, "delaying"   *)
(* while the retry delay is awaited and "returned" afterwards.  A call     *)
(* also records how many requests it issued, the failure of its last       *)
(* request, whether it was answered from the cache and at what age of the  *)
(* entry, and whether it was the first call for its name after a           *)
(* clearCache.                                                             *)
(***************************************************************************)
\* private readonly retryDelays = [1000, 2000, 4000]
retryDelays == <<1000, 2000, 4000>>

maxRetries == 3

\* the packages asked for
ServiceNames == {"flask", "requests"}

\* what awaiting client.get and transformResponse ends with: a body with
\* the info object, a 2xx body without it (an HTML page, say) on which
\* transformResponse throws a TypeError, no response at all, or a status
Responses == {"ok", "malformed", "network", "500", "429", "404"}

status(error) ==
    CASE error = "500" -> 500
      [] error = "429" -> 429
      [] error = "404" -> 404

\* shouldRetry(error): an AxiosError carries error.response only when the
\* server answered; a TypeError has no such property either
shouldRetry(error) ==
    IF error \in {"network", "malformed"}
    THEN TRUE
    ELSE status(error) >= 500 \/ status(error) = 429

isCacheValid(entries, packageName, clock, timeout) ==
    /\ entries[packageName] # NullObject
    /\ (clock - entries[packageName].timestamp) < timeout

\* new Map(), and the Map after clear()
EmptyCache == [n \in ServiceNames |-> NullObject]

\* updateCache(packageName, data)
updateCache(entries, packageName, data, clock) ==
    [entries EXCEPT ![packageName] = [data |-> data, timestamp |-> clock]]

\* this.retryDelays[retryCount] || 4000
retryDelay(retryCount) ==
    IF retryCount + 1 \in DOMAIN retryDelays THEN retryDelays[retryCount + 1] ELSE 4000

\* a call that has just entered fetchWithRetry(packageName, 0)
Requesting(packageName, firstAfterClear) ==
    [name |-> packageName, state |-> "requesting", retryCount |-> 0, requests |-> 1,
     wake |-> 0, failure |-> "", result |-> "", fromCache |-> FALSE, age |-> 0,
     afterClear |-> firstAfterClear]

\* a call answered by this.cache.get(packageName)!.data
Cached(packageName, entryAge, firstAfterClear) ==
    [name |-> packageName, state |-> "returned", retryCount |-> 0, requests |-> 0,
     wake |-> 0, failure |-> "", result |-> "data", fromCache |-> TRUE,
     age |-> entryAge, afterClear |-> firstAfterClear]

\* the service touches neither the pure core nor the provider
ServiceFrame ==
    /\ UNCHANGED <<fn, op, v1, v2, pool, pc, cmpResult, satResult, options>>
    /\ UNCHANGED manifestVars
    /\ UNCHANGED providerVars
    /\ UNCHANGED watcherVars
    /\ UNCHANGED extensionVars

\* getPackageInfo(packageName) up to its first await
GetPackageInfo(packageName) ==
    /\ pc = "run" /\ fn = "getPackageInfo"
    /\ Len(calls) < MaxCalls
    /\ calls' = Append(calls,
           IF isCacheValid(cache, packageName, now, cacheTimeout)
           THEN Cached(packageName, now - cache[packageName].timestamp,
                       packageName \in cleared)
           ELSE Requesting(packageName, packageName \in cleared))
    /\ cleared' = cleared \ {packageName}
    /\ UNCHANGED <<cache, now, cacheTimeout>>
    /\ ServiceFrame

\* the request of call i ends: fetchWithRetry returns the data or catches
\* the error, and getPackageInfo stores and returns what it gets
Respond(i, response) ==
    /\ pc = "run" /\ fn = "getPackageInfo"
    /\ calls[i].state = "requesting"
    /\ IF response = "ok"
       THEN /\ cache' = updateCache(cache, calls[i].name, calls[i].name, now)
            /\ calls' = [calls EXCEPT ![i].state = "returned", ![i].result = "data",
                                      ![i].retryCount = 0]
       ELSE /\ cache' = cache
            /\ calls' = IF calls[i].retryCount < maxRetries /\ shouldRetry(response)
                        THEN [calls EXCEPT ![i].state = "delaying",
                                           ![i].failure = response,
                                           ![i].wake = now + retryDelay(calls[i].retryCount)]
                        ELSE [calls EXCEPT ![i].state = "returned",
                                           ![i].failure = response,
                                           ![i].result = "null",
                                           ![i].retryCount = 0]
    /\ UNCHANGED <<now, cacheTimeout, cleared>>
    /\ ServiceFrame

\* the delay of call i elapses: fetchWithRetry(packageName, retryCount + 1)
Retry(i) ==
    /\ pc = "run" /\ fn = "getPackageInfo"
    /\ calls[i].state = "delaying"
    /\ now' = Max(now, calls[i].wake)
    /\ calls' = [calls EXCEPT ![i].state = "requesting",
                              ![i].retryCount = @ + 1,
                              ![i].requests = @ + 1,
                              ![i].failure = "",
                              ![i].wake = 0]
    /\ UNCHANGED <<cache, cacheTimeout, cleared>>
    /\ ServiceFrame

\* clearCache()
ClearCache ==
    /\ pc = "run" /\ fn = "getPackageInfo"
    /\ cache' = EmptyCache
    /\ cleared' = ServiceNames
    /\ UNCHANGED <<now, cacheTimeout, calls>>
    /\ ServiceFrame

\* a second passes
Tick ==
    /\ pc = "run" /\ fn = "getPackageInfo"
    /\ now + 1000 <= MaxNow
    /\ now' = now + 1000
    /\ UNCHANGED <<cache, cacheTimeout, calls, cleared>>
    /\ ServiceFrame

\* config.cacheTimeout as the user may set it, in milliseconds
CacheTimeouts == {1000, 2000}

InitService ==
    /\ fn = "getPackageInfo"
    /\ pc = "run"
    /\ CoreIdle
    /\ ProviderIdle
    /\ WatcherIdle
    /\ ExtensionIdle
    /\ cache = EmptyCache
    /\ now = 0
    /\ cacheTimeout \in CacheTimeouts
    /\ calls = <<>>
    /\ cleared = {}

NextService ==
    \/ \E n \in ServiceNames : GetPackageInfo(n)
    \/ \E i \in 1..Len(calls), r \in Responses : Respond(i, r)
    \/ \E i \in 1..Len(calls) : Retry(i)
    \/ ClearCache
    \/ Tick

SpecService == InitService /\ [][NextService]_vars

(***************************************************************************)
(* Properties of the version service.                                      *)
(***************************************************************************)
\* C24 (as claimed): over any sequence of getPackageInfo calls, clearCache
\* calls and clock advances, an entry is returned without a request only
\* while its age is strictly less than cacheTimeout, and after clearCache
\* the next call for any package issues a request.
C24_CacheServesOnlyFreshEntries ==
    \A i \in 1..Len(calls) :
        /\ calls[i].requests = 0 => calls[i].fromCache
        /\ calls[i].fromCache => /\ calls[i].age < cacheTimeout
                                 /\ ~calls[i].afterClear

\* the part about the age: no entry of age >= cacheTimeout is returned
C24_NoStaleEntryReturned ==
    \A i \in 1..Len(calls) :
        /\ calls[i].requests = 0 => calls[i].fromCache
        /\ calls[i].fromCache => calls[i].age < cacheTimeout

\* the failures the retry loop is said to retry
ClaimedRetryable == {"network", "500", "429"}

\* C26 (as claimed): one call of getPackageInfo issues at most 4 requests,
\* issues a further request only after a network error without response,
\* a status >= 500 or a 429, never after another 4xx such as 404, and
\* completes with the data or with null.
C26_AtMostFourRequestsRetriedOnlyOnServerFailure ==
    \A i \in 1..Len(calls) :
        /\ calls[i].requests <= 4
        /\ calls[i].state = "delaying" => calls[i].failure \in ClaimedRetryable
        /\ calls[i].state = "returned" => calls[i].result \in {"data", "null"}

\* the same, with a 2xx body without the info object counted as retryable
C26_HoldsCountingUnusableBodies ==
    \A i \in 1..Len(calls) :
        /\ calls[i].requests <= 4
        /\ calls[i].state = "delaying"
               => calls[i].failure \in ClaimedRetryable \cup {"malformed"}
        /\ calls[i].state = "returned" => calls[i].result \in {"data", "null"}

(***************************************************************************)
(* FileWatcher (fileWatcher.ts).  watching says that the file system       *)
(* watchers exist; listeners counts the pairs of onDidOpenTextDocument /   *)
(* onDidChangeTextDocument listeners startWatching has registered, which   *)
(* nothing ever disposes.  timers is the set of timers pending in the      *)
(* runtime, each [id, key, due]; debounceTimers maps a document key to the *)
(* id of its timer, 0 when the Map has none.  A timer runs when the clock  *)
(* reaches its due time.  opening holds the documents handleFileChange is  *)
(* awaiting openTextDocument for.  lastEvent[key] is the time of the last  *)
(* change event of the burst not yet answered by the callback (NoTime when *)
(* there is none), and lastCallback records the last run of the change     *)
(* callback.  A document is its file name, which is also its key.          *)
(***************************************************************************)
debounceDelay == 150

\* config.supportedFiles, the default list
supportedFiles ==
    <<<<"r", "e", "q", "u", "i", "r", "e", "m", "e", "n", "t", "s", ".", "t", "x", "t">>, <<"r", "e", "q", "u", "i", "r", "e", "m", "e", "n", "t", "s", "-", "*", ".", "t", "x", "t">>, <<"p", "y", "p", "r", "o", "j", "e", "c", "t", ".", "t", "o", "m", "l">>,
      <<"s", "e", "t", "u", "p", ".", "p", "y">>, <<"P", "i", "p", "f", "i", "l", "e">>, <<"p", "a", "c", "k", "a", "g", "e", ".", "j", "s", "o", "n">>>>

\* whether the whole text matches the source
RECURSIVE matchesWhole(_, _)
matchesWhole(source, text) ==
    IF source = <<>>
    THEN text = <<>>
    ELSE LET accepts(c) == IF Head(source) = "." THEN c \notin LineTerminators
                           ELSE c = Head(source)
         IN  IF Len(source) >= 2 /\ source[2] = "*"
             THEN \E k \in 0..Len(text) :
                      /\ \A i \in 1..k : accepts(text[i])
                      /\ matchesWhole(Suffix(source, 2), Suffix(text, k))
             ELSE /\ text # <<>>
                  /\ accepts(Head(text))
                  /\ matchesWhole(Tail(source), Tail(text))

\* FileWatcher.isSupportedFile: new RegExp(regex + '$').test(fileName) on
\* the lower-cased file name, for some pattern of the list
isSupportedFile(fileName) ==
    \E p \in 1..Len(supportedFiles) :
        \E start \in 0..Len(fileName) :
            matchesWhole(regexSource(supportedFiles[p]),
                         Suffix(toLowerCase(fileName), start))

\* the documents the editor reports events for
WatchedFiles == {<<"r", "e", "q", "u", "i", "r", "e", "m", "e", "n", "t", "s", ".", "t", "x", "t">>, <<"p", "a", "c", "k", "a", "g", "e", ".", "j", "s", "o", "n">>, <<"P", "i", "p", "f", "i", "l", "e">>}

\* isSupportedFile(document) for each of these documents; the configuration
\* does not change while the watcher runs
supported == [k \in WatchedFiles |-> isSupportedFile(k)]

NoTime == 0 - 1

NoCallback == [key |-> <<>>, at |-> NoTime, burstEnd |-> NoTime, watching |-> TRUE]

\* mutant: the existing timer stays pending
clearTimeoutKeeping(pending, id) == pending

\* clearTimeout(existingTimer)
clearTimeout(pending, id) == {t \in pending : t.id # id}

\* debounceFileChange(document) on the state w = [timers, debounceTimers]
debounceFileChange(w, key, clock) ==
    LET existingTimer == w.debounceTimers[key]
        cleared0 == IF existingTimer # 0
                    THEN clearTimeout(w.timers, existingTimer)
                    ELSE w.timers
        timer == CHOOSE id \in 1..(Cardinality(cleared0) + 1) :
                     \A t \in cleared0 : t.id # id
    IN  [timers |-> cleared0 \cup {[id |-> timer, key |-> key,
                                    due |-> clock + debounceDelay]},
         debounceTimers |-> [w.debounceTimers EXCEPT ![key] = timer]]

\* handleDocumentEvent(document), once for each registered listener
RECURSIVE handleDocumentEvent(_, _, _, _)
handleDocumentEvent(w, key, clock, n) ==
    IF n = 0 \/ ~supported[key]
    THEN w
    ELSE handleDocumentEvent(debounceFileChange(w, key, clock), key, clock, n - 1)

\* the watcher touches neither the pure core, the provider nor the service
WatcherFrame ==
    /\ UNCHANGED <<fn, op, v1, v2, pool, pc, cmpResult, satResult, options>>
    /\ UNCHANGED manifestVars
    /\ UNCHANGED providerVars
    /\ UNCHANGED <<cache, cacheTimeout, calls, cleared>>
    /\ UNCHANGED extensionVars

\* stopWatching()
StopWatching ==
    /\ pc = "run" /\ fn = "FileWatcher"
    /\ watching' = FALSE
    /\ timers' = {t \in timers : t.id \notin {debounceTimers[k] : k \in WatchedFiles}}
    /\ debounceTimers' = [k \in WatchedFiles |-> 0]
    /\ lastEvent' = [k \in WatchedFiles |-> NoTime]
    /\ UNCHANGED <<listeners, opening, lastCallback, now>>
    /\ WatcherFrame

\* startWatching(): stopWatching(), new watchers, and one more pair of
\* document listeners
StartWatching ==
    /\ pc = "run" /\ fn = "FileWatcher"
    /\ listeners < MaxStarts
    /\ watching' = TRUE
    /\ listeners' = listeners + 1
    /\ timers' = {t \in timers : t.id \notin {debounceTimers[k] : k \in WatchedFiles}}
    /\ debounceTimers' = [k \in WatchedFiles |-> 0]
    /\ lastEvent' = [k \in WatchedFiles |-> NoTime]
    /\ UNCHANGED <<opening, lastCallback, now>>
    /\ WatcherFrame

\* the editor opens or changes a document: every registered listener runs
DocumentEvent(key) ==
    /\ pc = "run" /\ fn = "FileWatcher"
    /\ listeners > 0
    /\ \E w \in {handleDocumentEvent([timers |-> timers, debounceTimers |-> debounceTimers],
                                     key, now, listeners)} :
           /\ timers' = w.timers
           /\ debounceTimers' = w.debounceTimers
    /\ lastEvent' = IF supported[key] THEN [lastEvent EXCEPT ![key] = now]
                    ELSE lastEvent
    /\ UNCHANGED <<watching, listeners, opening, lastCallback, now>>
    /\ WatcherFrame

\* a file system watcher reports a change: handleFileChange(uri) up to its await
FileEvent(key) ==
    /\ pc = "run" /\ fn = "FileWatcher"
    /\ watching
    /\ key \notin opening
    /\ opening' = opening \cup {key}
    /\ UNCHANGED <<watching, listeners, timers, debounceTimers, lastEvent, lastCallback, now>>
    /\ WatcherFrame

\* openTextDocument resolves: the rest of handleFileChange(uri)
Opened(key) ==
    /\ pc = "run" /\ fn = "FileWatcher"
    /\ key \in opening
    /\ opening' = opening \ {key}
    /\ \E w \in {handleDocumentEvent([timers |-> timers, debounceTimers |-> debounceTimers],
                                     key, now, 1)} :
           /\ timers' = w.timers
           /\ debounceTimers' = w.debounceTimers
    /\ lastEvent' = IF supported[key] THEN [lastEvent EXCEPT ![key] = now]
                    ELSE lastEvent
    /\ UNCHANGED <<watching, listeners, lastCallback, now>>
    /\ WatcherFrame

\* a timer that is due runs: debounceTimers.delete(key), then the callback
TimerFires(t) ==
    /\ pc = "run" /\ fn = "FileWatcher"
    /\ t \in timers
    /\ t.due = now
    /\ timers' = timers \ {t}
    /\ debounceTimers' = [debounceTimers EXCEPT ![t.key] = 0]
    /\ lastCallback' = [key |-> t.key, at |-> now, burstEnd |-> lastEvent[t.key],
                        watching |-> watching]
    /\ lastEvent' = [lastEvent EXCEPT ![t.key] = NoTime]
    /\ UNCHANGED <<watching, listeners, opening, now>>
    /\ WatcherFrame

\* 50 ms pass, once every timer that is due has run
TimePasses ==
    /\ pc = "run" /\ fn = "FileWatcher"
    /\ \A t \in timers : t.due > now
    /\ now + 50 <= MaxClock
    /\ now' = now + 50
    /\ UNCHANGED <<watching, listeners, timers, debounceTimers, opening, lastEvent, lastCallback>>
    /\ WatcherFrame

\* new FileWatcher(), with the callback of onFileChanged in place
InitWatcher ==
    /\ fn = "FileWatcher"
    /\ pc = "run"
    /\ CoreIdle
    /\ ProviderIdle
    /\ ServiceIdle
    /\ ExtensionIdle
    /\ watching = FALSE
    /\ listeners = 0
    /\ timers = {}
    /\ debounceTimers = [k \in WatchedFiles |-> 0]
    /\ opening = {}
    /\ lastEvent = [k \in WatchedFiles |-> NoTime]
    /\ lastCallback = NoCallback

NextWatcher ==
    \/ StartWatching
    \/ StopWatching
    \/ \E k \in WatchedFiles : DocumentEvent(k)
    \/ \E k \in WatchedFiles : FileEvent(k)
    \/ \E k \in WatchedFiles : Opened(k)
    \/ \E t \in timers : TimerFires(t)
    \/ TimePasses

SpecWatcher == InitWatcher /\ [][NextWatcher]_vars

(***************************************************************************)
(* Properties of the file watcher.                                         *)
(***************************************************************************)
\* the timers pending for a document
TimersOf(key) == {t \in timers : t.key = key}

\* C27: change events for one document that arrive less than 150 ms after
\* the previous one are coalesced: at most one timer is pending for a
\* document at any time, it is due 150 ms after the last event of the
\* burst whatever happens to other documents, and the callback runs for
\* the burst once, exactly then.
C27_BurstAnsweredOnceAfterDelay ==
    /\ \A k \in WatchedFiles :
           /\ Cardinality(TimersOf(k)) <= 1
           /\ lastEvent[k] # NoTime
                  => /\ \E t \in TimersOf(k) : t.due = lastEvent[k] + 150
                     /\ now <= lastEvent[k] + 150
           /\ lastEvent[k] = NoTime => TimersOf(k) = {}
    /\ lastCallback # NoCallback
           => /\ lastCallback.burstEnd # NoTime
              /\ lastCallback.at = lastCallback.burstEnd + 150

\* a burst of two events 50 ms apart was answered 150 ms after the second,
\* while another document still waits for its own timer
C27_Witness ==
    /\ lastCallback.key = <<"r", "e", "q", "u", "i", "r", "e", "m", "e", "n", "t", "s", ".", "t", "x", "t">>
    /\ lastCallback.burstEnd = 50
    /\ lastCallback.at = 200
    /\ now = 200
    /\ lastEvent[<<"p", "a", "c", "k", "a", "g", "e", ".", "j", "s", "o", "n">>] = 100
    /\ Cardinality(TimersOf(<<"p", "a", "c", "k", "a", "g", "e", ".", "j", "s", "o", "n">>)) = 1
    /\ listeners = 2

\* C28 (as claimed): after stopWatching has returned no debounce timer is
\* pending and the change callback is not invoked again, whatever document
\* events occur, until startWatching is called.
C28_NothingRunsWhileStopped ==
    /\ ~watching => timers = {}
    /\ lastCallback.watching

\* what does hold: stopWatching leaves no timer pending when it returns,
\* and after any number of stop/start cycles an event schedules one timer
C28_StopClearsAndEventSchedulesOnce ==
    /\ (~watching /\ \A k \in WatchedFiles : lastEvent[k] = NoTime) => timers = {}
    /\ \A k \in WatchedFiles : Cardinality(TimersOf(k)) <= 1

(***************************************************************************)
(* The extension (extension.ts): the Show / Hide / toggle commands, and    *)
(* handleFileChange and handleDocumentChange, which parse the open         *)
(* document, await the latest version of each package and then hand the    *)
(* package list to the provider.  An invocation that awaits is a task      *)
(* [kind, text, packages, todo, lastPackages]: the text it parsed, its     *)
(* package objects, the positions still to fetch, and the list it read     *)
(* from lastParsedPackages.  The provider shares the package objects of a  *)
(* task only while its loading flag is set, when it reads their names and  *)
(* lines, which no fetch changes; the lists are therefore held by value.   *)
(* Every package name of these documents passes isValidPythonPackageName   *)
(* and carries no extras.                                                  *)
(***************************************************************************)
\* the texts of the open document, each given by the declarations that
\* ParserManager.parseDocument reads from it; they differ in the version
\* of flask, so that detectPackageChanges sees every edit
DocumentTexts ==
    << <<ProviderPackage("flask", "==", <<D(1), D(0), D(0)>>, Null, 0)>>,
       <<ProviderPackage("flask", "==", <<D(1), D(1), D(0)>>, Null, 0),
         ProviderPackage("requests", ">=", <<D(2), D(0), D(0)>>, Null, 1)>> >>

\* what the registries list: flask is known, requests is not
ExtensionRegistry ==
    [n \in {"flask"} |-> << <<D(1), D(0), D(0)>>, <<D(1), D(1), D(0)>>, <<D(2), D(0), D(0)>> >>]

\* getLatestVersion: packageInfo?.version || null, the newest version listed
getLatestVersion(packageName, listed) ==
    IF packageName \notin DOMAIN listed
    THEN Null
    ELSE IF listed[packageName] = <<>>
    THEN Null
    ELSE Head(sortDescending(listed[packageName]))

\* packageMap: the first declaration of each name
RECURSIVE firstOfEachName(_, _)
firstOfEachName(pkgs, seen) ==
    IF pkgs = <<>> THEN <<>>
    ELSE IF Head(pkgs).name \in seen
    THEN firstOfEachName(Tail(pkgs), seen)
    ELSE <<Head(pkgs)>> \o firstOfEachName(Tail(pkgs), seen \cup {Head(pkgs).name})

\* oldPackageMap.get(name): the position of the last package of that name,
\* 0 when there is none
lastNamed(pkgs, name) ==
    LET at == {i \in 1..Len(pkgs) : pkgs[i].name = name}
    IN  IF at = {} THEN 0 ELSE CHOOSE i \in at : \A j \in at : j <= i

\* detectPackageChanges: the positions of the new packages that are added
\* or whose current version differs
detectPackageChanges(oldPackages, newPackages) ==
    SelectSeq([i \in 1..Len(newPackages) |-> i],
              LAMBDA i :
                  LET at == lastNamed(oldPackages, newPackages[i].name)
                  IN  \/ at = 0
                      \/ oldPackages[at].currentVersion # newPackages[i].currentVersion)

\* mergePackageVersions
mergePackageVersions(currentPackages, lastPackages) ==
    [i \in 1..Len(currentPackages) |->
        LET currentPkg == currentPackages[i]
            at == lastNamed(lastPackages, currentPkg.name)
        IN  IF at = 0
            THEN currentPkg
            ELSE IF /\ lastPackages[at].currentVersion = currentPkg.currentVersion
                    /\ lastPackages[at].latestVersion \notin {Null, EmptyText}
            THEN [currentPkg EXCEPT !.latestVersion = lastPackages[at].latestVersion]
            ELSE currentPkg]

\* the awaited getLatestVersion of the next package returns: what the loop
\* body stores in the package
fetched(task, listed) ==
    LET i == Head(task.todo)
        pkg == task.packages[i]
        latestVersion == getLatestVersion(pkg.name, listed)
        stored == IF latestVersion \notin {Null, EmptyText}
                  THEN latestVersion
                  ELSE IF task.kind = "handleFileChange"
                  THEN pkg.latestVersion
                  ELSE IF pkg.currentVersion = Null
                  THEN EmptyText
                  ELSE pkg.currentVersion
    IN  [task EXCEPT !.packages[i].latestVersion = stored, !.todo = Tail(@)]

\* the list an invocation hands to the provider when its loop has ended
finalPackages(task) ==
    IF task.kind = "handleFileChange"
    THEN task.packages
    ELSE mergePackageVersions(task.packages, task.lastPackages)

\* a sequence without its k-th element
without(s, k) == SubSeq(s, 1, k - 1) \o SubSeq(s, k + 1, Len(s))

\* the extension touches neither the pure core, the version service's
\* cache model nor the file watcher, and the registries stay as they are
ExtensionFrame ==
    /\ UNCHANGED <<fn, op, v1, v2, pool, pc, cmpResult, satResult, options>>
    /\ UNCHANGED manifestVars
    /\ UNCHANGED serviceVars
    /\ UNCHANGED watcherVars
    /\ UNCHANGED <<registry, configEnabled>>

\* handleFileChange(document) up to its first await, with the switch at
\* lensesOn; document is the document of the active editor
handleFileChange(lensesOn) ==
    IF ~configEnabled \/ ~lensesOn
    THEN UNCHANGED <<isLoading, shownPackages, tasks, lastParsedPackages,
                     latestParsed, raced>>
    ELSE \E packages \in {firstOfEachName(DocumentTexts[docText], {})} :
             /\ isLoading' = (Len(packages) > 0)
             /\ shownPackages' = packages
             /\ tasks' = IF Len(packages) > 0
                         THEN Append(tasks, [kind |-> "handleFileChange",
                                             text |-> docText,
                                             packages |-> packages,
                                             todo |-> [i \in 1..Len(packages) |-> i],
                                             lastPackages |-> <<>>])
                         ELSE tasks
             /\ lastParsedPackages' = IF Len(packages) > 0
                                      THEN lastParsedPackages
                                      ELSE packages
             /\ latestParsed' = docText
             /\ raced' = (tasks # <<>>)

\* handleDocumentChange(document) up to its first await
handleDocumentChange ==
    IF ~configEnabled \/ ~isVersionLensesEnabled
    THEN UNCHANGED <<isLoading, shownPackages, tasks, latestParsed, raced>>
    ELSE \E changedPackages \in {detectPackageChanges(lastParsedPackages,
                                                     DocumentTexts[docText])} :
             /\ latestParsed' = docText
             /\ raced' = (tasks # <<>>)
             /\ IF Len(changedPackages) > 0
                THEN /\ isLoading' = TRUE
                     /\ shownPackages' = DocumentTexts[docText]
                     /\ tasks' = Append(tasks, [kind |-> "handleDocumentChange",
                                                text |-> docText,
                                                packages |-> DocumentTexts[docText],
                                                todo |-> changedPackages,
                                                lastPackages |-> lastParsedPackages])
                ELSE UNCHANGED <<isLoading, shownPackages, tasks>>

\* toggleVersionLenses(show), with DecorationManager.setEnabled(show)
toggleVersionLenses(show) ==
    /\ configEnabled
    /\ isVersionLensesEnabled' = show
    /\ enabled' = show
    /\ hidden' = ~show
    /\ IF show
       THEN handleFileChange(TRUE)
       ELSE /\ shownPackages' = <<>>
            /\ UNCHANGED <<isLoading, tasks, lastParsedPackages, latestParsed, raced>>
    /\ UNCHANGED <<docText, refreshTimer, provideCall, lenses>>
    /\ ExtensionFrame

\* the Show Version Lenses command
ShowVersionLenses ==
    /\ pc = "run" /\ fn = "extension"
    /\ Len(tasks) < MaxTasks
    /\ toggleVersionLenses(TRUE)

\* the Hide Version Lenses command
HideVersionLenses ==
    /\ pc = "run" /\ fn = "extension"
    /\ toggleVersionLenses(FALSE)

\* the toggle command: toggleVersionLensesState()
ToggleVersionLensesState ==
    /\ pc = "run" /\ fn = "extension"
    /\ Len(tasks) < MaxTasks
    /\ toggleVersionLenses(~isVersionLensesEnabled)

\* the file watcher's callback, the active-editor listener or the refresh
\* command calls handleFileChange(document)
FileChanged ==
    /\ pc = "run" /\ fn = "extension"
    /\ Len(tasks) < MaxTasks
    /\ configEnabled /\ isVersionLensesEnabled
    /\ handleFileChange(isVersionLensesEnabled)
    /\ UNCHANGED <<enabled, lenses, isVersionLensesEnabled, docText, refreshTimer,
                   provideCall, hidden>>
    /\ ExtensionFrame

\* the user edits the document: onDidChangeTextDocument, debounceRefresh
Edit ==
    /\ pc = "run" /\ fn = "extension"
    /\ docText' \in (1..Len(DocumentTexts)) \ {docText}
    /\ refreshTimer' = IF isVersionLensesEnabled THEN TRUE ELSE refreshTimer
    /\ UNCHANGED providerVars
    /\ UNCHANGED <<isVersionLensesEnabled, tasks, lastParsedPackages, provideCall,
                   hidden, latestParsed, raced>>
    /\ ExtensionFrame

\* the refresh timer runs: handleDocumentChange(document)
RefreshTimerFires ==
    /\ pc = "run" /\ fn = "extension"
    /\ refreshTimer
    /\ Len(tasks) < MaxTasks
    /\ refreshTimer' = FALSE
    /\ handleDocumentChange
    /\ UNCHANGED <<enabled, lenses, isVersionLensesEnabled, docText, lastParsedPackages,
                   provideCall, hidden>>
    /\ ExtensionFrame

\* the version awaited by invocation k arrives: the loop goes on to the
\* next await, or ends and the invocation runs to its end
VersionArrives(k) ==
    /\ pc = "run" /\ fn = "extension"
    /\ k \in 1..Len(tasks)
    /\ \E task \in {fetched(tasks[k], registry)} :
           IF task.todo # <<>>
           THEN /\ tasks' = [tasks EXCEPT ![k] = task]
                /\ UNCHANGED <<isLoading, shownPackages, lastParsedPackages>>
           ELSE /\ tasks' = without(tasks, k)
                /\ isLoading' = FALSE
                /\ shownPackages' = finalPackages(task)
                /\ lastParsedPackages' = finalPackages(task)
    /\ UNCHANGED <<enabled, lenses, isVersionLensesEnabled, docText, refreshTimer,
                   provideCall, hidden, latestParsed, raced>>
    /\ ExtensionFrame

\* the editor calls provideCodeLenses(document): the check of isEnabled and
\* the reads of isLoading and packages, up to the first await
ProvideCodeLensesCalled ==
    /\ pc = "run" /\ fn = "extension"
    /\ provideCall.state # "pending"
    /\ provideCall' = [state |-> "pending",
                       held |-> IF isLoading THEN 0 ELSE Len(shownPackages),
                       codeLenses |-> provideCodeLenses(enabled, isLoading,
                                                        shownPackages, registry),
                       hidden |-> hidden]
    /\ UNCHANGED providerVars
    /\ UNCHANGED <<isVersionLensesEnabled, docText, tasks, lastParsedPackages,
                   refreshTimer, hidden, latestParsed, raced>>
    /\ ExtensionFrame

\* provideCodeLenses returns its lenses
ProvideCodeLensesReturns ==
    /\ pc = "run" /\ fn = "extension"
    /\ provideCall.state = "pending"
    /\ provideCall' = [provideCall EXCEPT !.state = "returned"]
    /\ lenses' = provideCall.codeLenses
    /\ UNCHANGED <<enabled, isLoading, shownPackages>>
    /\ UNCHANGED <<isVersionLensesEnabled, docText, tasks, lastParsedPackages,
                   refreshTimer, hidden, latestParsed, raced>>
    /\ ExtensionFrame

\* activate() with a supported document in the active editor
InitExtension ==
    /\ fn = "extension"
    /\ pc = "run"
    /\ CoreIdle
    /\ ServiceIdle
    /\ WatcherIdle
    /\ enabled = TRUE
    /\ isLoading = FALSE
    /\ shownPackages = <<>>
    /\ registry = ExtensionRegistry
    /\ lenses = <<>>
    /\ isVersionLensesEnabled = TRUE
    /\ configEnabled \in BOOLEAN
    /\ docText = 1
    /\ tasks = <<>>
    /\ lastParsedPackages = <<>>
    /\ refreshTimer = FALSE
    /\ provideCall = NoProvideCall
    /\ hidden = FALSE
    /\ latestParsed = 0
    /\ raced = FALSE

NextExtension ==
    \/ ShowVersionLenses
    \/ HideVersionLenses
    \/ ToggleVersionLensesState
    \/ FileChanged
    \/ Edit
    \/ RefreshTimerFires
    \/ \E k \in 1..MaxTasks : VersionArrives(k)
    \/ ProvideCodeLensesCalled
    \/ ProvideCodeLensesReturns

SpecExtension == InitExtension /\ [][NextExtension]_vars

declarations(pkgs) == [i \in 1..Len(pkgs) |-> [pkgs[i] EXCEPT !.latestVersion = Null]]

\* C29 (as claimed): when invocations of handleFileChange and
\* handleDocumentChange have overlapped and all have ended, the package
\* list of the provider and the one in lastParsedPackages are those of the
\* text parsed last.
C29_ListIsOfLatestText ==
    (tasks = <<>> /\ raced /\ isVersionLensesEnabled /\ configEnabled)
        => /\ declarations(shownPackages) = DocumentTexts[latestParsed]
           /\ declarations(lastParsedPackages) = DocumentTexts[latestParsed]

\* what does hold: the lists are those of the text parsed last when the
\* last invocation started after every other had ended
C29_HoldsWithoutOverlap ==
    (tasks = <<>> /\ ~raced /\ latestParsed # 0 /\ isVersionLensesEnabled /\ configEnabled)
        => /\ declarations(shownPackages) = DocumentTexts[latestParsed]
           /\ declarations(lastParsedPackages) = DocumentTexts[latestParsed]

====
